---- MODULE Spec2Model ----
(***************************************************************************)
(* psync: tree-diff and rename-resolution engine.                          *)
(*                                                                         *)
(* A path is a sequence of names; the root of a tree is <<>> (the relpath  *)
(* "." of the code).  A tree is a function from the paths that exist to    *)
(* entries [kind, size, mtime].  A file's (size, mtime) signature stands   *)
(* for its content as well: copy2 carries both, a rename carries both.     *)
(***************************************************************************)
EXTENDS Integers, Sequences, FiniteSets, TLC

VARIABLES
    src,        \* source tree
    dst,        \* destination tree
    trash,      \* trash tree (config.trash), empty before a run
    dst0,       \* destination tree when the first run started
    cfg,        \* _SyncConfig
    work,       \* the walk: directory pairs still to scan, diffs still to emit
    ops,        \* operations of the current diff not yet handed to the executor
    emitted,    \* operations handed to the executor in this run, in order
    failed,     \* operations of this run whose perform() raised OSError
    skipped,    \* operations of this run skipped for depending on a failed one
    diffs,      \* the diffs yielded by the walk in this run, in order
    run,        \* 1 for the first run, 2 for the run repeated on its result
    prev,       \* what the first run emitted and what of it failed or was skipped
    pc,         \* "walk" while the run is going, "done" when it completed
    conn        \* "up", or "down" once the connection to a remote destination is lost

\* PathFilter: the filter string being compiled and the compiled filter being asked
VARIABLES
    filter_string,  \* the tokens of the filter string, as _tokenize yields them
    pos,            \* index of the next token PathFilter.__init__ takes
    action,         \* the action of __init__: TRUE after +, FALSE after -
    segments,       \* PathFilter._segments
    tmp_allowed,    \* PathFilter._tmp_allowed
    yielded,        \* the segments _get_segments yielded in the last allow/reject call
    fstate,         \* "compile" inside __init__, "ready" after it, "error" if it raised
    relpath,        \* the path last given to filter(), <<>> before the first call
    result          \* what that call returned

svars == <<src, dst, trash, dst0, cfg, work, ops, emitted, failed, skipped, diffs, run, prev, pc, conn>>

fvars == <<filter_string, pos, action, segments, tmp_allowed, yielded, fstate, relpath, result>>

\* _UniqueIDGenerator (helpers.py): the clock it reads, its class attributes, its callers
VARIABLES
    clock,          \* int(time.time()) as a caller would read it now
    tz,             \* the local time zone of the process
    last_time,      \* _UniqueIDGenerator._last_time
    counter,        \* _UniqueIDGenerator._counter
    lock,           \* the thread that holds _UniqueIDGenerator._lock, 0 when it is free
    caller,         \* each thread's position in get_timestamp and its current_time
    ids             \* the identifiers returned so far, in order

gvars == <<clock, tz, last_time, counter, lock, caller, ids>>

\* the walks that follow symbolic links: _walk and _scandir of one tree (core.py), and the
\* ancestors of the paired walk (dual_walk.py)
VARIABLES
    stack,          \* _walk: the paths still to visit and, between them, the canonical
                    \* paths to take out of visited_dirs again; the top is the last
    visited_dirs,   \* _walk: the canonical paths of the directories being visited
    scanned,        \* _scandir: the directories _walk has yielded, in order
    reported,       \* _scandir: the relative paths of the files it has yielded
    src_ancestors,  \* _DualWalk.src_ancestors
    dst_ancestors,  \* _DualWalk.dst_ancestors
    circular        \* the paths logged as "Symlink circular reference", in order

wvars == <<stack, visited_dirs, scanned, reported, src_ancestors, dst_ancestors, circular>>

xvars == <<gvars, wvars>>

vars == <<svars, fvars, xvars>>

----------------------------------------------------------------------------
(* Names and paths *)

\* The names of the model in code-point order, as Python compares strings.
NameOrder ==
    <<"A", "A.tempmove", "Ab", "Ab.tempmove", "a", "a.tempmove", "aB", "aB.tempmove",
      "ab", "ab.tempmove", "b", "b.tempmove", "c", "c.tempmove">>

Rank(n) == CHOOSE i \in 1..Len(NameOrder) : NameOrder[i] = n

\* str.lower() on the names of the model
Lower(n) ==
    CASE n = "A" -> "a" [] n = "A.tempmove" -> "a.tempmove"
      [] n \in {"Ab", "aB"} -> "ab" [] n \in {"Ab.tempmove", "aB.tempmove"} -> "ab.tempmove"
      [] OTHER -> n

\* _Relpath.norm: the parts of relpath, lower-cased when the destination is "nt"
Norm(sys, p) == IF sys = "nt" THEN [i \in 1..Len(p) |-> Lower(p[i])] ELSE p

Front(p) == SubSeq(p, 1, Len(p) - 1)

Last(p) == p[Len(p)]

Min2(a, b) == IF a < b THEN a ELSE b

\* all(a==b for a,b in zip(x, y))
ZipEqual(x, y) == \A i \in 1..Min2(Len(x), Len(y)) : x[i] = y[i]

\* _Relpath.is_relative_to, on norms (the root "." is <<>>)
IsRelativeTo(sys, p, other) ==
    \/ other = <<>>
    \/ /\ ZipEqual(Norm(sys, p), Norm(sys, other))
       /\ Len(p) >= Len(other)

\* tuple comparison x < y of two norms
RECURSIVE TupleLt(_, _)
TupleLt(x, y) ==
    IF x = <<>> THEN y # <<>>
    ELSE IF y = <<>> THEN FALSE
    ELSE IF Head(x) = Head(y) THEN TupleLt(Tail(x), Tail(y))
    ELSE Rank(Head(x)) < Rank(Head(y))

\* _Relpath.__add__: relpath + ".tempmove"
AddSuffix(p, suffix) == [p EXCEPT ![Len(p)] = p[Len(p)] \o suffix]

\* The paths of a set as a sequence, ascending by norm: sorted(S, key=lambda x: x.norm)
RECURSIVE SortByNorm(_, _)
SortByNorm(sys, S) ==
    IF S = {} THEN <<>>
    ELSE LET m == CHOOSE x \in S : \A y \in S \ {x} : ~TupleLt(Norm(sys, y), Norm(sys, x))
         IN <<m>> \o SortByNorm(sys, S \ {m})

Range(s) == {s[i] : i \in 1..Len(s)}

\* list without the elements of a set, order kept (del d[k] on a dict used as an ordered set)
RECURSIVE Without(_, _)
Without(s, S) ==
    IF s = <<>> THEN <<>>
    ELSE IF Head(s) \in S THEN Without(Tail(s), S)
    ELSE <<Head(s)>> \o Without(Tail(s), S)

----------------------------------------------------------------------------
(* File trees *)

FileEntry(m) == [kind |-> "file", size |-> m.size, mtime |-> m.mtime]

DirEntry == [kind |-> "dir", size |-> 0, mtime |-> 0]

EmptyTree == [p \in {} |-> DirEntry]

\* The path as the file system holds it: on a case-insensitive ("nt") file system each
\* part resolves to the entry that differs from it at most in case.
RECURSIVE RealPath(_, _, _)
RealPath(sys, fs, p) ==
    IF p = <<>> THEN <<>>
    ELSE LET par == RealPath(sys, fs, Front(p))
             same == {q \in DOMAIN fs : /\ Len(q) = Len(p)
                                        /\ Front(q) = par
                                        /\ Norm(sys, <<Last(q)>>) = Norm(sys, <<Last(p)>>)}
         IN IF same # {} THEN CHOOSE q \in same : TRUE ELSE Append(par, Last(p))

Exists(sys, fs, p) == p = <<>> \/ RealPath(sys, fs, p) \in DOMAIN fs

IsDir(sys, fs, p) == p = <<>> \/ (Exists(sys, fs, p) /\ fs[RealPath(sys, fs, p)].kind = "dir")

IsFile(sys, fs, p) == p # <<>> /\ Exists(sys, fs, p) /\ fs[RealPath(sys, fs, p)].kind = "file"

Children(fs, d) == {q \in DOMAIN fs : Len(q) = Len(d) + 1 /\ Front(q) = d}

IsPrefix(d, q) == Len(d) <= Len(q) /\ SubSeq(q, 1, Len(d)) = d

Restrict(f, S) == [x \in S |-> f[x]]

\* every proper, non-root prefix of p
Ancestors(p) == {SubSeq(p, 1, i) : i \in 1..(Len(p) - 1)}

\* every ancestor of every entry exists and is a directory
WellFormed(fs) == \A p \in DOMAIN fs : \A a \in Ancestors(p) : a \in DOMAIN fs /\ fs[a].kind = "dir"

----------------------------------------------------------------------------
(* _DualWalk.dir_list and _DualWalk.dir_diff *)

\* The name order of the model stands for the order in which the directory is read.
RECURSIVE SortByName(_)
SortByName(S) ==
    IF S = {} THEN <<>>
    ELSE LET m == CHOOSE x \in S : \A y \in S \ {x} : ~TupleLt(y, x)
         IN <<m>> \o SortByName(S \ {m})

NoList == [has |-> FALSE, parent |-> <<>>, dirs |-> <<>>, files |-> <<>>,
           meta |-> [p \in {} |-> [size |-> 0, mtime |-> 0]]]

\* dir_list(dir, root): `present` is FALSE for dir = None
DirList(fs, dir, present) ==
    IF ~present \/ ~(dir = <<>> \/ (dir \in DOMAIN fs /\ fs[dir].kind = "dir")) THEN NoList
    ELSE LET ch == Children(fs, dir)
             fl == {q \in ch : fs[q].kind = "file"}
         IN [has    |-> TRUE,
             parent |-> dir,
             dirs   |-> SortByName({q \in ch : fs[q].kind = "dir"}),
             files  |-> SortByName(fl),
             meta   |-> [q \in fl |-> [size |-> fs[q].size, mtime |-> fs[q].mtime]]]

AsEntries(paths, kind) == [i \in 1..Len(paths) |-> [path |-> paths[i], kind |-> kind]]

\* a candidate loop that takes a candidate of the other type as it does under force
RECURSIVE MatchLoopAnyType(_, _, _, _, _)
MatchLoopAnyType(sys, force, d, ms, st) ==
    IF ms = <<>> THEN st
    ELSE LET m == Head(ms) IN
         IF Last(d.path) = Last(m.path)
         THEN MatchLoopAnyType(sys, force, d, Tail(ms),
                  [st EXCEPT !.strong = <<m>>,
                             !.rejected = IF st.weak = "one" THEN @ \cup {st.weakE[1]} ELSE @])
         ELSE IF Norm(sys, <<Last(d.path)>>) = Norm(sys, <<Last(m.path)>>)
         THEN LET r1 == IF st.strong # <<>> THEN st.rejected \cup {m} ELSE st.rejected
              IN MatchLoopAnyType(sys, force, d, Tail(ms),
                     IF st.weak = "none"
                     THEN [st EXCEPT !.weak = "one", !.weakE = <<m>>, !.rejected = r1]
                     ELSE IF st.weak = "one"
                     THEN [st EXCEPT !.weak = "false", !.weakE = <<>>,
                                     !.rejected = r1 \cup {m, st.weakE[1]}]
                     ELSE [st EXCEPT !.rejected = r1 \cup {m}])
         ELSE MatchLoopAnyType(sys, force, d, Tail(ms), st)

\* the loop over the candidates of one destination entry (dual_walk.py 650-671)
RECURSIVE MatchLoop(_, _, _, _, _)
MatchLoop(sys, force, d, ms, st) ==
    IF ms = <<>> THEN st
    ELSE LET m == Head(ms) IN
         IF d.kind # m.kind /\ ~force
         THEN [st EXCEPT !.reject = TRUE]
         ELSE IF Last(d.path) = Last(m.path)
         THEN MatchLoop(sys, force, d, Tail(ms),
                  [st EXCEPT !.strong = <<m>>,
                             !.rejected = IF st.weak = "one" THEN @ \cup {st.weakE[1]} ELSE @])
         ELSE IF Norm(sys, <<Last(d.path)>>) = Norm(sys, <<Last(m.path)>>)
         THEN LET r1 == IF st.strong # <<>> THEN st.rejected \cup {m} ELSE st.rejected
              IN MatchLoop(sys, force, d, Tail(ms),
                     IF st.weak = "none"
                     THEN [st EXCEPT !.weak = "one", !.weakE = <<m>>, !.rejected = r1]
                     ELSE IF st.weak = "one"
                     THEN [st EXCEPT !.weak = "false", !.weakE = <<>>,
                                     !.rejected = r1 \cup {m, st.weakE[1]}]
                     ELSE [st EXCEPT !.rejected = r1 \cup {m}])
         ELSE MatchLoop(sys, force, d, Tail(ms), st)

MatchStart == [strong |-> <<>>, weak |-> "none", weakE |-> <<>>, reject |-> FALSE, rejected |-> {}]

\* a dir_diff that does not reject a destination entry for having several weak matches
MatchOneNoAmbiguity(sys, force, d, srcEntries) ==
    LET ms     == SelectSeq(srcEntries, LAMBDA e : Norm(sys, e.path) = Norm(sys, d.path))
        st     == MatchLoop(sys, force, d, ms, MatchStart)
        final  == IF st.strong # <<>> THEN st.strong ELSE st.weakE
    IN [reject   |-> st.reject,
        rejected |-> IF st.reject THEN Range(ms) ELSE st.rejected,
        final    |-> final]

\* what dir_diff decides for one destination entry (dual_walk.py 644-714)
MatchOne(sys, force, d, srcEntries) ==
    LET ms     == SelectSeq(srcEntries, LAMBDA e : Norm(sys, e.path) = Norm(sys, d.path))
        st     == MatchLoop(sys, force, d, ms, MatchStart)
        reject == st.reject \/ (st.weak = "false" /\ st.strong = <<>>)
        final  == IF st.strong # <<>> THEN st.strong ELSE st.weakE
    IN [reject   |-> reject,
        rejected |-> IF reject THEN Range(ms) ELSE st.rejected,
        final    |-> final]

EmptyDiff ==
    [src_parent |-> <<>>, has_src |-> FALSE,
     dst_parent |-> <<>>, has_dst |-> FALSE,
     src_file_metadata |-> NoList.meta,
     dst_file_metadata |-> NoList.meta,
     src_only_dirs  |-> <<>>, dst_only_dirs  |-> <<>>,
     src_only_files |-> <<>>, dst_only_files |-> <<>>,
     dir_matches    |-> <<>>, file_matches   |-> <<>>,
     ignored_src_entries |-> {}, ignored_dst_entries |-> {}]

\* the loop over in_dst (dual_walk.py 644-714), one destination entry at a time
RECURSIVE DiffDst(_, _, _, _, _)
DiffDst(sys, force, ds, srcEntries, acc) ==
    IF ds = <<>> THEN acc
    ELSE LET d == Head(ds)
             r == MatchOne(sys, force, d, srcEntries)
             a1 == [acc EXCEPT
                      !.ignored_src_entries = @ \cup {e.path : e \in r.rejected},
                      !.ignored_dst_entries = IF r.reject THEN @ \cup {d.path} ELSE @]
             a2 == IF r.final # <<>>
                   THEN LET f == r.final[1] IN
                        IF f.kind = "dir" /\ d.kind = "dir"
                        THEN [a1 EXCEPT !.dir_matches = Append(@, [s |-> f.path, d |-> d.path])]
                        ELSE IF f.kind # "dir" /\ d.kind # "dir"
                        THEN [a1 EXCEPT !.file_matches = Append(@, [s |-> f.path, d |-> d.path])]
                        ELSE IF f.kind # "dir" /\ d.kind = "dir"
                        THEN [a1 EXCEPT !.src_only_files = Append(@, f.path),
                                        !.dst_only_dirs  = Append(@, d.path)]
                        ELSE [a1 EXCEPT !.src_only_dirs  = Append(@, f.path),
                                        !.dst_only_files = Append(@, d.path)]
                   ELSE IF ~r.reject
                   THEN IF d.kind = "dir"
                        THEN [a1 EXCEPT !.dst_only_dirs  = Append(@, d.path)]
                        ELSE [a1 EXCEPT !.dst_only_files = Append(@, d.path)]
                   ELSE a1
         IN DiffDst(sys, force, Tail(ds), srcEntries, a2)

\* the loop over in_src_only (dual_walk.py 716-732); `all` is every source entry that
\* matched no destination entry, `todo` the part of it not yet looked at
RECURSIVE DiffSrc(_, _, _, _)
DiffSrc(sys, todo, all, acc) ==
    IF todo = <<>> THEN acc
    ELSE LET e     == Head(todo)
             group == SelectSeq(all, LAMBDA x : Norm(sys, x.path) = Norm(sys, e.path))
             first == group[1] = e
             a1    == IF ~first THEN acc
                      ELSE IF Len(group) > 1
                      THEN [acc EXCEPT !.ignored_src_entries = @ \cup {x.path : x \in Range(group)}]
                      ELSE IF e.kind = "dir"
                      THEN [acc EXCEPT !.src_only_dirs  = Append(@, e.path)]
                      ELSE [acc EXCEPT !.src_only_files = Append(@, e.path)]
         IN DiffSrc(sys, Tail(todo), all, a1)

\* dir_diff(src_list, dst_list)
DirDiff(sys, force, sl, dl) ==
    LET srcEntries == AsEntries(sl.dirs, "dir") \o AsEntries(sl.files, "file")
        dstEntries == AsEntries(dl.dirs, "dir") \o AsEntries(dl.files, "file")
        dstNorms   == {Norm(sys, e.path) : e \in Range(dstEntries)}
        srcOnly    == SelectSeq(srcEntries, LAMBDA e : Norm(sys, e.path) \notin dstNorms)
        start      == [EmptyDiff EXCEPT
                         !.src_parent = sl.parent, !.has_src = sl.has,
                         !.dst_parent = dl.parent, !.has_dst = dl.has,
                         !.src_file_metadata = sl.meta,
                         !.dst_file_metadata = dl.meta]
    IN DiffSrc(sys, srcOnly, srcOnly, DiffDst(sys, force, dstEntries, srcEntries, start))

----------------------------------------------------------------------------
(* _Diff.get_file_rename_map and _Diff.get_file_rename_chains *)

\* _reverse_dict that keeps a key for a value that appears more than once
ReverseDictKeepKey(d) ==
    [v \in {d[k] : k \in DOMAIN d} |-> <<CHOOSE k \in DOMAIN d : d[k] = v>>]

\* _reverse_dict: value -> <<key>>, or <<>> (None) when the value appears more than once
ReverseDict(d) ==
    [v \in {d[k] : k \in DOMAIN d} |->
        LET ks == {k \in DOMAIN d : d[k] = v}
        IN IF Cardinality(ks) = 1 THEN <<CHOOSE k \in ks : TRUE>> ELSE <<>>]

\* _last_bytes(file): the file's tail, which its signature stands for
LastBytes(fs, p) == [size |-> fs[p].size, mtime |-> fs[p].mtime]

\* the signatures that name one file of the side and reach the rename threshold
UniqueMeta(rev, threshold) == {m \in DOMAIN rev : rev[m] # <<>> /\ m.size >= threshold}

\* get_file_rename_map: destination file -> source file, as a function; its keys are
\* iterated in ascending norm order (RenameKeys)
FileRenameMap(c, df, sfs, dfs) ==
    LET srcRev == ReverseDict(Restrict(df.src_file_metadata,
                                       DOMAIN df.src_file_metadata \ df.ignored_src_entries))
        dstRev == ReverseDict(Restrict(df.dst_file_metadata,
                                       DOMAIN df.dst_file_metadata \ df.ignored_dst_entries))
        matched == UniqueMeta(srcRev, c.rename_threshold) \cap UniqueMeta(dstRev, c.rename_threshold)
        kept == {m \in matched :
                    /\ srcRev[m][1] # dstRev[m][1]
                    /\ (c.metadata_only \/ LastBytes(sfs, srcRev[m][1]) = LastBytes(dfs, dstRev[m][1]))}
    IN [d \in {dstRev[m][1] : m \in kept} |->
           srcRev[CHOOSE m \in kept : dstRev[m][1] = d][1]]

RenameKeys(sys, map) == SortByNorm(sys, DOMAIN map)

\* the while loop that follows one chain (dual_walk.py 219-244)
RECURSIVE FollowChain(_, _, _, _, _, _, _)
FollowChain(sys, map, df, first, from, chain, handled) ==
    LET h == handled \cup {from} IN
    IF from \notin DOMAIN map
    THEN [chain |-> <<>>, is_cycle |-> FALSE, handled |-> h]
    ELSE LET to == map[from]
             ch == Append(chain, <<from, to>>)
         IN IF ZipEqual(Norm(sys, from), Norm(sys, to))
            THEN [chain |-> <<>>, is_cycle |-> FALSE, handled |-> h]
            ELSE IF \E d \in Range(df.dst_only_files) : IsRelativeTo(sys, to, d)
            THEN [chain |-> <<>>, is_cycle |-> FALSE, handled |-> h]
            ELSE IF to \in Range(df.src_only_files)
            THEN [chain |-> ch, is_cycle |-> FALSE, handled |-> h]
            ELSE IF to = first
            THEN [chain |-> ch, is_cycle |-> TRUE, handled |-> h]
            ELSE FollowChain(sys, map, df, first, to, ch, h)

Reverse(s) == [i \in 1..Len(s) |-> s[Len(s) + 1 - i]]

\* a cycle yielded like any other chain, without the temporary name
YieldChainNoTemp(chain, is_cycle) == Reverse(chain)

\* the renames yielded for one chain (dual_walk.py 246-257)
YieldChain(chain, is_cycle) ==
    IF chain = <<>> THEN <<>>
    ELSE LET keys == Reverse(chain)
             last == keys[Len(keys)]
         IN IF is_cycle
            THEN <<<<last[1], AddSuffix(last[2], ".tempmove")>>>>
                 \o SubSeq(keys, 1, Len(keys) - 1)
                 \o <<<<AddSuffix(last[2], ".tempmove"), last[2]>>>>
            ELSE keys

\* del self.src_only_dirs[new_dir] up the parents of a rename target, until one is missing
RECURSIVE DelParents(_, _)
DelParents(dirs, d) ==
    IF d = <<>> \/ d \notin Range(dirs) THEN dirs
    ELSE DelParents(Without(dirs, {d}), Front(d))

\* remove the files of one link from the other collections (dual_walk.py 260-278)
RemoveLink(df, link) ==
    LET from == link[1]
        to   == link[2]
        d1 == IF to \in Range(df.src_only_files)
              THEN [df EXCEPT !.src_only_files = Without(@, {to}),
                              !.src_only_dirs  = IF Len(to) > 1 THEN DelParents(@, Front(to)) ELSE @]
              ELSE df
    IN [d1 EXCEPT !.file_matches   = SelectSeq(@, LAMBDA m : m.s # from),
                  !.dst_only_files = Without(@, {from})]

RECURSIVE RemoveLinks(_, _)
RemoveLinks(df, chain) ==
    IF chain = <<>> THEN df ELSE RemoveLinks(RemoveLink(df, Head(chain)), Tail(chain))

\* the loop over the keys of the rename map (dual_walk.py 211-278)
RECURSIVE ChainsLoop(_, _, _, _)
ChainsLoop(sys, map, keys, st) ==
    IF keys = <<>> THEN st
    ELSE IF Head(keys) \in st.handled THEN ChainsLoop(sys, map, Tail(keys), st)
    ELSE LET r == FollowChain(sys, map, st.diff, Head(keys), Head(keys), <<>>, st.handled)
         IN ChainsLoop(sys, map, Tail(keys),
                [handled |-> r.handled,
                 pairs   |-> st.pairs \o YieldChain(r.chain, r.is_cycle),
                 diff    |-> RemoveLinks(st.diff, r.chain)])

\* get_file_rename_chains: the renames in the order yielded, and the diff as it is left
FileRenameChains(c, df, sfs, dfs) ==
    LET map == FileRenameMap(c, df, sfs, dfs)
    IN ChainsLoop(c.dst_sys, map, RenameKeys(c.dst_sys, map),
                  [handled |-> {}, pairs |-> <<>>, diff |-> df])

----------------------------------------------------------------------------
(* Operations: the factory, depends_on, and what perform() does to the trees *)

None == <<>>

Op(kind, dstp, srcp, target) == [op |-> kind, dst |-> dstp, src |-> srcp, target |-> target]

\* _OperationFactory.get_rename_ops, for a file
GetRenameOps(from, to) == <<Op("RenameFile", from, None, to)>>

\* _OperationFactory.get_delete_ops
GetDeleteOps(c, p, kind) ==
    IF kind = "file"
    THEN <<Op(IF c.trash THEN "TrashFile" ELSE "DeleteFile", p, None, None)>>
    ELSE <<Op(IF c.trash THEN "TrashDir" ELSE "DeleteDir", p, None, None)>>

\* get_update_ops that yields the update alone
GetUpdateOpsNoRename(c, s, d, df) ==
    IF df.src_file_metadata[s].mtime # df.dst_file_metadata[d].mtime
    THEN <<Op("UpdateFile", d, s, None)>> ELSE <<>>

\* _OperationFactory.get_update_ops, for a matched pair of files
GetUpdateOps(c, s, d, df) ==
    LET src_time  == df.src_file_metadata[s].mtime
        dst_time  == df.dst_file_metadata[d].mtime
        do_update == src_time > dst_time \/ (src_time < dst_time /\ c.force_update)
    IN IF ~do_update THEN <<>>
       ELSE <<Op("UpdateFile", d, s, None)>>
            \o (IF Last(s) # Last(d) THEN <<Op("RenameFile", d, None, s)>> ELSE <<>>)

\* _OperationFactory.get_create_ops
GetCreateOps(p, kind) ==
    IF kind = "file" THEN <<Op("CreateFile", p, p, None)>> ELSE <<Op("CreateDir", p, None, None)>>

\* diff.get_rename_pairs() of the folder-by-folder mode: the file rename chains of the diff
GetRenamePairs(c, df, sfs, dfs) == FileRenameChains(c, df, sfs, dfs)

RECURSIVE Flatten(_)
Flatten(ss) == IF ss = <<>> THEN <<>> ELSE Head(ss) \o Flatten(Tail(ss))

\* _get_operations, the body of the loop over the diffs when global_renames is off
LocalOperations(c, df0, sfs, dfs) ==
    LET rc == IF c.renames THEN GetRenamePairs(c, df0, sfs, dfs)
              ELSE [handled |-> {}, pairs |-> <<>>, diff |-> df0]
        df == rc.diff
        renames == Flatten([i \in 1..Len(rc.pairs) |-> GetRenameOps(rc.pairs[i][1], rc.pairs[i][2])])
        deletes == IF ~c.delete_files THEN <<>>
                   ELSE Flatten([i \in 1..Len(df.dst_only_files) |->
                                    GetDeleteOps(c, df.dst_only_files[i], "file")])
                        \o (IF ~df.has_src THEN GetDeleteOps(c, df.dst_parent, "dir") ELSE <<>>)
        updates == Flatten([i \in 1..Len(df.file_matches) |->
                               GetUpdateOps(c, df.file_matches[i].s, df.file_matches[i].d, df)])
        mkdir   == IF c.create_dir_tree \/ (c.create_files /\ Len(df.src_only_files) > 0)
                   THEN (IF ~df.has_dst THEN GetCreateOps(df.src_parent, "dir") ELSE <<>>)
                   ELSE <<>>
        creates == IF c.create_files
                   THEN Flatten([i \in 1..Len(df.src_only_files) |->
                                    GetCreateOps(df.src_only_files[i], "file")])
                   ELSE <<>>
    IN renames \o deletes \o updates \o mkdir \o creates

\* an in_path that leaves the directory create out
InPathFilesOnly(o) ==
    CASE o.op = "CreateFile" -> <<o.dst>>
      [] o.op = "RenameFile" -> <<o.target>>
      [] OTHER               -> <<>>

\* Operation.depends_on
InPath(o) ==
    CASE o.op = "CreateFile" -> <<o.dst>>
      [] o.op = "RenameFile" -> <<o.target>>
      [] o.op = "CreateDir"  -> <<o.dst>>
      [] OTHER               -> <<>>

\* an out_path that leaves the renames out
OutPathNoRename(o) ==
    IF o.op \in {"DeleteFile", "TrashFile", "CreateDir", "DeleteDir"}
    THEN <<o.dst>> ELSE <<>>

OutPath(o) ==
    IF o.op \in {"RenameFile", "DeleteFile", "TrashFile", "CreateDir", "DeleteDir"}
    THEN <<o.dst>> ELSE <<>>

DependsOn(sys, self, o) ==
    /\ InPath(self) # <<>>
    /\ OutPath(o) # <<>>
    /\ IsRelativeTo(sys, InPath(self)[1], OutPath(o)[1])

Put(fs, p, e) == [q \in DOMAIN fs \cup {p} |-> IF q = p THEN e ELSE fs[q]]

Remove(fs, S) == Restrict(fs, DOMAIN fs \ S)

\* Path.mkdir(exist_ok=True, parents=True)
RECURSIVE Mkdir(_, _, _)
Mkdir(sys, fs, p) ==
    IF p = <<>> THEN [ok |-> TRUE, fs |-> fs]
    ELSE IF Exists(sys, fs, p) THEN [ok |-> IsDir(sys, fs, p), fs |-> fs]
    ELSE LET par == Mkdir(sys, fs, Front(p))
         IN IF ~par.ok THEN par
            ELSE [ok |-> TRUE,
                  fs |-> Put(par.fs, Append(RealPath(sys, par.fs, Front(p)), Last(p)), DirEntry)]

\* the entry e put at path t, in place of whatever t resolved to
PutAt(sys, fs, t, e) ==
    Put(Remove(fs, {RealPath(sys, fs, t)}), Append(RealPath(sys, fs, Front(t)), Last(t)), e)

\* Path.replace of a directory: the directory and all it holds go to the new path
MoveDir(sys, fs, from, to) ==
    LET rf == RealPath(sys, fs, from)
        rt == Append(RealPath(sys, fs, Front(to)), Last(to))
        under == {q \in DOMAIN fs : IsPrefix(rf, q)}
    IN IF Exists(sys, fs, to) \/ IsPrefix(rf, rt) THEN [ok |-> FALSE, fs |-> fs]
       ELSE [ok |-> TRUE,
             fs |-> [q \in (DOMAIN fs \ under) \cup {rt \o SubSeq(u, Len(rf) + 1, Len(u)) : u \in under} |->
                        IF q \in DOMAIN fs \ under THEN fs[q]
                        ELSE fs[rf \o SubSeq(q, Len(rt) + 1, Len(q))]]]

\* _move(from, to) with both paths in the tree fs
Move(sys, fs, from, to, exist_ok) ==
    IF Exists(sys, fs, to) /\ (~exist_ok \/ ~IsFile(sys, fs, to)) THEN [ok |-> FALSE, fs |-> fs]
    ELSE LET mk == Mkdir(sys, fs, Front(to))
         IN IF ~mk.ok \/ from = <<>> \/ ~Exists(sys, mk.fs, from) THEN [ok |-> FALSE, fs |-> mk.fs]
            ELSE IF IsDir(sys, mk.fs, from) THEN MoveDir(sys, mk.fs, from, to)
            ELSE LET rf == RealPath(sys, mk.fs, from)
                 IN [ok |-> TRUE, fs |-> PutAt(sys, Remove(mk.fs, {rf}), to, mk.fs[rf])]

\* _copy(src / s, dst / d)
Copy(sys, sfs, dfs, s, d) ==
    IF Exists(sys, dfs, d) /\ ~IsFile(sys, dfs, d) THEN [ok |-> FALSE, fs |-> dfs]
    ELSE LET mk == Mkdir(sys, dfs, Front(d))
         IN IF ~mk.ok \/ s \notin DOMAIN sfs \/ sfs[s].kind # "file" THEN [ok |-> FALSE, fs |-> mk.fs]
            ELSE [ok |-> TRUE, fs |-> PutAt(sys, mk.fs, d, sfs[s])]

\* Path.unlink()
Unlink(sys, fs, p) ==
    IF IsFile(sys, fs, p) THEN [ok |-> TRUE, fs |-> Remove(fs, {RealPath(sys, fs, p)})]
    ELSE [ok |-> FALSE, fs |-> fs]

\* Path.rmdir()
Rmdir(sys, fs, p) ==
    IF p # <<>> /\ IsDir(sys, fs, p) /\ Children(fs, RealPath(sys, fs, p)) = {}
    THEN [ok |-> TRUE, fs |-> Remove(fs, {RealPath(sys, fs, p)})]
    ELSE [ok |-> FALSE, fs |-> fs]

\* _move(dst / p, trash / p)
MoveToTrash(sys, dfs, tfs, p) ==
    IF Exists(sys, tfs, p) THEN [ok |-> FALSE, dst |-> dfs, trash |-> tfs]
    ELSE LET mk == Mkdir(sys, tfs, Front(p))
         IN IF ~mk.ok \/ ~IsFile(sys, dfs, p) THEN [ok |-> FALSE, dst |-> dfs, trash |-> mk.fs]
            ELSE LET rp == RealPath(sys, dfs, p)
                 IN [ok |-> TRUE, dst |-> Remove(dfs, {rp}), trash |-> PutAt(sys, mk.fs, p, dfs[rp])]

\* TrashDirOperation.perform
TrashDir(sys, dfs, tfs, p) ==
    LET mk == Mkdir(sys, tfs, p)
        rm == Rmdir(sys, dfs, p)
    IN IF ~mk.ok THEN [ok |-> FALSE, dst |-> dfs, trash |-> tfs]
       ELSE [ok |-> rm.ok, dst |-> rm.fs, trash |-> mk.fs]

OnDst(r, tfs) == [ok |-> r.ok, dst |-> r.fs, trash |-> tfs]

\* Operation.perform of each class: the trees it leaves, and whether it raised no OSError
Perform(c, o, sfs, dfs, tfs) ==
    CASE o.op \in {"RenameFile", "RenameDir"} ->
            OnDst(Move(c.dst_sys, dfs, o.dst, o.target,
                       Norm(c.dst_sys, o.dst) = Norm(c.dst_sys, o.target)), tfs)
      [] o.op = "DeleteFile" -> OnDst(Unlink(c.dst_sys, dfs, o.dst), tfs)
      [] o.op = "DeleteDir"  -> OnDst(Rmdir(c.dst_sys, dfs, o.dst), tfs)
      [] o.op = "TrashFile"  -> MoveToTrash(c.dst_sys, dfs, tfs, o.dst)
      [] o.op = "TrashDir"   -> TrashDir(c.dst_sys, dfs, tfs, o.dst)
      [] o.op = "UpdateFile" -> OnDst(Copy(c.dst_sys, sfs, dfs, o.src, o.dst), tfs)
      [] o.op = "CreateFile" -> OnDst(Copy(c.dst_sys, sfs, dfs, o.src, o.dst), tfs)
      [] o.op = "CreateDir"  -> OnDst(Mkdir(c.dst_sys, dfs, o.dst), tfs)

----------------------------------------------------------------------------
(* The paired walk (_DualWalk.dual_walk) and the run that performs its operations *)

ScanTask(s, hs, d, hd, bu) ==
    [t |-> "scan", s |-> s, has_s |-> hs, d |-> d, has_d |-> hd, bottom_up |-> bu, diff |-> EmptyDiff]

YieldTask(df) ==
    [t |-> "yield", s |-> None, has_s |-> FALSE, d |-> None, has_d |-> FALSE, bottom_up |-> FALSE,
     diff |-> df]

\* os.scandir raises an OSError other than FileNotFoundError: the path is a file
ListFails(fs, dir, present) == present /\ dir \in DOMAIN fs /\ fs[dir].kind = "file"

\* a walk that also looks in the destination for the directories only the source has
WalkStepsProbe(df, bu) ==
    LET lone    == [i \in 1..Len(df.dst_only_dirs) |->
                       ScanTask(None, FALSE, df.dst_only_dirs[i], TRUE, TRUE)]
        matched == [i \in 1..Len(df.dir_matches) |->
                       ScanTask(df.dir_matches[i].s, TRUE, df.dir_matches[i].d, TRUE, bu)]
        new     == [i \in 1..Len(df.src_only_dirs) |->
                       ScanTask(df.src_only_dirs[i], TRUE, df.src_only_dirs[i], TRUE, bu)]
    IN IF bu THEN lone \o matched \o new \o <<YieldTask(df)>>
       ELSE lone \o <<YieldTask(df)>> \o matched \o new

\* what dual_walk(src_path, dst_path, _bottom_up) does after dir_diff (dual_walk.py 362-383):
\* the recursive calls and the yield, in order
WalkSteps(df, bu) ==
    LET lone    == [i \in 1..Len(df.dst_only_dirs) |->
                       ScanTask(None, FALSE, df.dst_only_dirs[i], TRUE, TRUE)]
        matched == [i \in 1..Len(df.dir_matches) |->
                       ScanTask(df.dir_matches[i].s, TRUE, df.dir_matches[i].d, TRUE, bu)]
        new     == [i \in 1..Len(df.src_only_dirs) |->
                       ScanTask(df.src_only_dirs[i], TRUE, None, FALSE, bu)]
    IN IF bu THEN lone \o matched \o new \o <<YieldTask(df)>>
       ELSE lone \o <<YieldTask(df)>> \o matched \o new

RootTask == ScanTask(<<>>, TRUE, <<>>, TRUE, FALSE)

\* dual_walk lists and diffs one pair of directories; a listing that raises OSError, as
\* the listing of the destination does when the connection is down (ConnectionError is an
\* OSError), is logged and the pair is left out
Scan ==
    /\ pc = "walk" /\ ~cfg.global_renames /\ ops = <<>> /\ work # <<>> /\ Head(work).t = "scan"
    /\ LET w  == Head(work)
           df == DirDiff(cfg.dst_sys, cfg.force,
                         DirList(src, w.s, w.has_s), DirList(dst, w.d, w.has_d))
       IN work' = IF \/ ListFails(src, w.s, w.has_s) \/ ListFails(dst, w.d, w.has_d)
                     \/ (conn = "down" /\ w.has_d)
                  THEN Tail(work)
                  ELSE WalkSteps(df, w.bottom_up) \o Tail(work)
    /\ UNCHANGED <<src, dst, trash, dst0, cfg, ops, emitted, failed, skipped, diffs, run, prev, pc, conn>>
    /\ UNCHANGED <<fvars, xvars>>

\* dual_walk yields a diff and _get_operations turns it into operations; with the
\* connection down no last bytes can be read from the destination, the OSError is logged
\* and no pair enters the rename map
Yield ==
    /\ pc = "walk" /\ ~cfg.global_renames /\ ops = <<>> /\ work # <<>> /\ Head(work).t = "yield"
    /\ ops' = LocalOperations(IF conn = "down" /\ ~cfg.metadata_only
                               THEN [cfg EXCEPT !.renames = FALSE] ELSE cfg,
                               Head(work).diff, src, dst)
    /\ diffs' = Append(diffs, Head(work).diff)
    /\ work' = Tail(work)
    /\ UNCHANGED <<src, dst, trash, dst0, cfg, emitted, failed, skipped, run, prev, pc, conn>>
    /\ UNCHANGED <<fvars, xvars>>

\* the executor's test before it attempts an operation: the operation DependsOn an
\* operation of this run that failed
DependsOnFailed(sys, o, failedOps) == \E f \in Range(failedOps) : DependsOn(sys, o, f)

\* a run that performs the operation without looking at dry_run
PerformOpAlways ==
    /\ pc = "walk" /\ ops # <<>>
    /\ LET r == Perform(cfg, Head(ops), src, dst, trash)
       IN /\ ops' = Tail(ops)
          /\ emitted' = Append(emitted, Head(ops))
          /\ dst' = r.dst
          /\ trash' = r.trash
          /\ failed' = IF r.ok THEN failed ELSE Append(failed, Head(ops))
    /\ UNCHANGED <<src, dst0, cfg, work, diffs, run, prev, skipped, pc, conn>>
    /\ UNCHANGED <<fvars, xvars>>

\* the run takes the next operation: skipped when it depends on a failed one, logged only
\* in a dry run, performed otherwise; with the connection down the operation raises
\* ConnectionError, which the except OSError of the operation takes for its failure
\* an executor whose operations are performed on the source tree
PerformOpOnSource ==
    /\ pc = "walk" /\ ops # <<>>
    /\ LET o == Head(ops)
           r == Perform(cfg, o, src, src, trash)
       IN /\ ops' = Tail(ops)
          /\ emitted' = Append(emitted, o)
          /\ src' = IF cfg.dry_run THEN src ELSE r.dst
          /\ failed' = IF r.ok \/ cfg.dry_run THEN failed ELSE Append(failed, o)
    /\ UNCHANGED <<dst, trash, dst0, cfg, work, skipped, diffs, run, prev, conn, pc>>
    /\ UNCHANGED <<fvars, xvars>>

PerformOp ==
    /\ pc = "walk" /\ ops # <<>>
    /\ LET o == Head(ops)
           r == IF conn = "down" THEN [ok |-> FALSE, dst |-> dst, trash |-> trash]
                ELSE Perform(cfg, o, src, dst, trash)
       IN /\ ops' = Tail(ops)
          /\ emitted' = Append(emitted, o)
          /\ IF DependsOnFailed(cfg.dst_sys, o, failed)
             THEN /\ skipped' = Append(skipped, o)
                  /\ UNCHANGED <<dst, trash, failed>>
             ELSE IF cfg.dry_run
             THEN UNCHANGED <<dst, trash, failed, skipped>>
             ELSE /\ dst' = r.dst
                  /\ trash' = r.trash
                  /\ failed' = IF r.ok THEN failed ELSE Append(failed, o)
                  /\ UNCHANGED skipped
    /\ UNCHANGED <<src, dst0, cfg, work, diffs, run, prev, conn>>
    /\ UNCHANGED <<fvars, xvars>>
    /\ pc' = pc

\* the walk is exhausted: the run completes
Finish ==
    /\ pc = "walk" /\ ops = <<>> /\ work = <<>>
    /\ pc' = "done"
    /\ UNCHANGED <<src, dst, trash, dst0, cfg, work, ops, emitted, failed, skipped, diffs, run, prev, conn>>
    /\ UNCHANGED <<fvars, xvars>>

\* the connection to the destination is lost while the run is going
Disconnect ==
    /\ pc = "walk" /\ conn = "up"
    /\ conn' = "down"
    /\ UNCHANGED <<src, dst, trash, dst0, cfg, work, ops, emitted, failed, skipped, diffs, run, prev, pc>>
    /\ UNCHANGED <<fvars, xvars>>

NoRun == [emitted |-> <<>>, failed |-> <<>>, skipped |-> <<>>]

\* the engine is run a second time on the same pair of trees with the same configuration
Rerun ==
    /\ pc = "done" /\ run = 1
    /\ run' = 2
    /\ prev' = [emitted |-> emitted, failed |-> failed, skipped |-> skipped]
    /\ emitted' = <<>> /\ failed' = <<>> /\ skipped' = <<>> /\ diffs' = <<>>
    /\ work' = <<RootTask>>
    /\ pc' = "walk"
    /\ UNCHANGED <<src, dst, trash, dst0, cfg, ops, conn>>
    /\ UNCHANGED <<fvars, xvars>>

Next == Scan \/ Yield \/ PerformOp \/ Finish \/ Rerun

----------------------------------------------------------------------------
(* Whole-tree mode (config.global_renames): the walk is read in completely, *)
(* directory hashes are taken, and one plan is made for the whole tree      *)

\* _Diff.update: dict.update on the metadata dicts (UpdateDict), on the dicts used as
\* ordered sets (Extend) and on the match dicts, which are keyed by the source path
DiffUpdate(self, other) ==
    LET UpdateDict(f, g) == [x \in DOMAIN f \cup DOMAIN g |-> IF x \in DOMAIN g THEN g[x] ELSE f[x]]
        Extend(s, t) == s \o SelectSeq(t, LAMBDA x : x \notin Range(s))
        UpdateMatches(ms, os) ==
            [i \in 1..Len(ms) |->
                IF \E j \in 1..Len(os) : os[j].s = ms[i].s
                THEN os[CHOOSE j \in 1..Len(os) :
                            os[j].s = ms[i].s /\ \A k \in (j + 1)..Len(os) : os[k].s # ms[i].s]
                ELSE ms[i]]
            \o SelectSeq(os, LAMBDA m : \A i \in 1..Len(ms) : ms[i].s # m.s)
    IN
    [self EXCEPT
        !.src_file_metadata = UpdateDict(@, other.src_file_metadata),
        !.dst_file_metadata = UpdateDict(@, other.dst_file_metadata),
        !.src_only_dirs  = Extend(@, other.src_only_dirs),
        !.dst_only_dirs  = Extend(@, other.dst_only_dirs),
        !.src_only_files = Extend(@, other.src_only_files),
        !.dst_only_files = Extend(@, other.dst_only_files),
        !.dir_matches    = UpdateMatches(@, other.dir_matches),
        !.file_matches   = UpdateMatches(@, other.file_matches),
        !.ignored_src_entries = @ \cup other.ignored_src_entries,
        !.ignored_dst_entries = @ \cup other.ignored_dst_entries]

\* the keys of a directory-hash dict, in insertion order
HashKeys(hs) == [i \in 1..Len(hs) |-> hs[i].dir]

\* the dict as a function
HashDict(hs) == [d \in Range(HashKeys(hs)) |-> hs[CHOOSE i \in 1..Len(hs) : hs[i].dir = d].hash]

\* hash(tuple(files + dirs)) of one listed directory (dual_walk.py 387-410): the value
\* hashed stands for the hash; no entry when a child directory has none
AddDirHash(hs, list) ==
    IF ~list.has \/ \E i \in 1..Len(list.dirs) : list.dirs[i] \notin Range(HashKeys(hs)) THEN hs
    ELSE Append(hs,
            [dir  |-> list.parent,
             hash |-> [files |-> [i \in 1..Len(list.files) |->
                                     <<Last(list.files[i]), list.meta[list.files[i]]>>],
                       dirs  |-> [i \in 1..Len(list.dirs) |-> HashDict(hs)[list.dirs[i]]]]])

\* `for dif in dw` of the whole-tree branch (operations.py 52-55) over
\* _DualWalk(config, get_dir_hashes=True): every diff merged, the directories that
\* must be made for their files, and the hashes in the order they were entered; a task
\* "hash" stands for the end of dual_walk, where the hashes of the pair are taken
RECURSIVE WalkAll(_, _, _, _, _)
WalkAll(c, sfs, dfs, todo, acc) ==
    IF todo = <<>> THEN acc
    ELSE LET w  == Head(todo)
             sl == DirList(sfs, w.s, w.has_s)
             dl == DirList(dfs, w.d, w.has_d)
         IN IF w.t = "scan"
            THEN IF ListFails(sfs, w.s, w.has_s) \/ ListFails(dfs, w.d, w.has_d)
                 THEN WalkAll(c, sfs, dfs, Tail(todo), acc)
                 ELSE WalkAll(c, sfs, dfs,
                              WalkSteps(DirDiff(c.dst_sys, c.force, sl, dl), w.bottom_up)
                                  \o <<[w EXCEPT !.t = "hash"]>> \o Tail(todo),
                              acc)
            ELSE IF w.t = "yield"
            THEN WalkAll(c, sfs, dfs, Tail(todo),
                         [acc EXCEPT
                             !.diff = DiffUpdate(@, w.diff),
                             !.necessary_dirs =
                                 IF Len(w.diff.src_only_files) > 0 /\ ~w.diff.has_dst
                                 THEN Append(@, w.diff.src_parent) ELSE @])
            ELSE WalkAll(c, sfs, dfs, Tail(todo),
                         [acc EXCEPT !.src_dir_hash = AddDirHash(@, sl),
                                     !.dst_dir_hash = AddDirHash(@, dl)])

\* the norm of a directory, the root being "."
DirNorm(sys, p) == IF p = <<>> THEN <<".">> ELSE Norm(sys, p)

\* the loop of get_dir_rename_map over reversed(dst_dir_hash.keys()) (dual_walk.py 764-777)
RECURSIVE DirRenameLoop(_, _, _, _, _, _)
DirRenameLoop(sys, keys, dstHash, dstRev, srcRev, map) ==
    IF keys = <<>> THEN map
    ELSE LET dst_dir == Head(keys)
             hash    == dstHash[dst_dir]
             skip    == \/ dstRev[hash] = <<>>
                        \/ \E d \in DOMAIN map : IsRelativeTo(sys, dst_dir, d)
                        \/ hash \notin DOMAIN srcRev
                        \/ srcRev[hash] = <<>>
                        \/ ZipEqual(DirNorm(sys, dst_dir), DirNorm(sys, srcRev[hash][1]))
         IN DirRenameLoop(sys, Tail(keys), dstHash, dstRev, srcRev,
                IF skip THEN map
                ELSE [d \in DOMAIN map \cup {dst_dir} |->
                         IF d = dst_dir THEN srcRev[hash][1] ELSE map[d]])

\* get_dir_rename_map: destination directory -> source directory with the same hash
DirRenameMap(sys, walk) ==
    DirRenameLoop(sys, Reverse(HashKeys(walk.dst_dir_hash)), HashDict(walk.dst_dir_hash),
                  ReverseDict(HashDict(walk.dst_dir_hash)), ReverseDict(HashDict(walk.src_dir_hash)),
                  [p \in {} |-> <<>>])

\* the while loop that follows one chain of directories (dual_walk.py 796-818)
RECURSIVE DirFollowChain(_, _, _, _, _, _, _)
DirFollowChain(sys, map, df, first, from, chain, handled) ==
    LET h == handled \cup {from} IN
    IF from \notin DOMAIN map
    THEN [chain |-> <<>>, is_cycle |-> FALSE, handled |-> h]
    ELSE LET to == map[from]
             ch == Append(chain, <<from, to>>)
         IN IF \E d \in Range(df.dst_only_files) : IsRelativeTo(sys, to, d)
            THEN [chain |-> <<>>, is_cycle |-> FALSE, handled |-> h]
            ELSE IF to \in Range(df.src_only_dirs)
            THEN [chain |-> ch, is_cycle |-> FALSE, handled |-> h]
            ELSE IF to = first
            THEN [chain |-> ch, is_cycle |-> TRUE, handled |-> h]
            ELSE DirFollowChain(sys, map, df, first, to, ch, h)

\* del diff.dir_matches[d], del diff.dst_only_dirs[d], each adding d to removed_by_rename
DelDstDir(st, d) ==
    [diff    |-> [st.diff EXCEPT !.dir_matches   = SelectSeq(@, LAMBDA m : m.s # d),
                                 !.dst_only_dirs = Without(@, {d})],
     removed |-> IF (\E m \in Range(st.diff.dir_matches) : m.s = d) \/ d \in Range(st.diff.dst_only_dirs)
                 THEN st.removed \cup {d} ELSE st.removed]

\* remove the directories of a chain from the other collections (dual_walk.py 833-852)
RECURSIVE DirRemoveLinks(_, _)
DirRemoveLinks(st, chain) ==
    IF chain = <<>> THEN st
    ELSE LET link == Head(chain)
             s1   == [st EXCEPT !.diff.src_only_dirs = DelParents(@, link[2])]
         IN DirRemoveLinks(DelDstDir(s1, link[1]), Tail(chain))

\* a generator of rename pairs between two of its yields: the keys its for loop has not
\* reached, the pairs of the current chain still to yield, and the chain whose removal
\* from the other collections follows the last of them
NewGen(keys) == [keys |-> keys, handled |-> {}, removed |-> {}, pending |-> <<>>, cleanup |-> <<>>]

Stopped == <<>>

\* get_dir_rename_chains resumed in its for loop, up to the next yield or the end
RECURSIVE DirLoop(_, _, _, _)
DirLoop(sys, map, g, df) ==
    IF g.keys = <<>> THEN [item |-> Stopped, gen |-> g, diff |-> df]
    ELSE LET k  == Head(g.keys)
             g1 == [g EXCEPT !.keys = Tail(@)]
             Followed(r, ys) ==
                 IF r.chain = <<>>
                 THEN DirLoop(sys, map, [g1 EXCEPT !.handled = r.handled], df)
                 ELSE [item |-> <<Head(ys)>>,
                       gen  |-> [g1 EXCEPT !.handled = r.handled, !.pending = Tail(ys),
                                           !.cleanup = r.chain],
                       diff |-> df]
             Chain(r) == Followed(r, YieldChain(r.chain, r.is_cycle))
             Deleted(st) == DirLoop(sys, map, [g1 EXCEPT !.removed = st.removed], st.diff)
         IN IF k \in DOMAIN map
            THEN IF k \in g.handled THEN DirLoop(sys, map, g1, df)
                 ELSE Chain(DirFollowChain(sys, map, df, k, k, <<>>, g.handled))
            ELSE IF Len(k) > 1 /\ Front(k) \in g.removed
            THEN Deleted(DelDstDir([diff |-> df, removed |-> g.removed], k))
            ELSE DirLoop(sys, map, g1, df)

\* next(dir_iter)
DirNext(sys, map, g, df) ==
    IF g.pending # <<>>
    THEN [item |-> <<Head(g.pending)>>, gen |-> [g EXCEPT !.pending = Tail(@)], diff |-> df]
    ELSE LET Resumed(st) ==
                 DirLoop(sys, map, [g EXCEPT !.cleanup = <<>>, !.removed = st.removed], st.diff)
         IN Resumed(DirRemoveLinks([diff |-> df, removed |-> g.removed], g.cleanup))

\* get_file_rename_chains resumed in its for loop, up to the next yield or the end
RECURSIVE FileLoop(_, _, _, _)
FileLoop(sys, map, g, df) ==
    IF g.keys = <<>> THEN [item |-> Stopped, gen |-> g, diff |-> df]
    ELSE LET k  == Head(g.keys)
             g1 == [g EXCEPT !.keys = Tail(@)]
             Followed(r, ys) ==
                 IF r.chain = <<>>
                 THEN FileLoop(sys, map, [g1 EXCEPT !.handled = r.handled], df)
                 ELSE [item |-> <<Head(ys)>>,
                       gen  |-> [g1 EXCEPT !.handled = r.handled, !.pending = Tail(ys),
                                           !.cleanup = r.chain],
                       diff |-> df]
             Chain(r) == Followed(r, YieldChain(r.chain, r.is_cycle))
         IN IF k \in g.handled THEN FileLoop(sys, map, g1, df)
            ELSE Chain(FollowChain(sys, map, df, k, k, <<>>, g.handled))

\* next(file_iter)
FileNext(sys, map, g, df) ==
    IF g.pending # <<>>
    THEN [item |-> <<Head(g.pending)>>, gen |-> [g EXCEPT !.pending = Tail(@)], diff |-> df]
    ELSE FileLoop(sys, map, [g EXCEPT !.cleanup = <<>>], RemoveLinks(df, g.cleanup))

\* get_combined_rename_chains taking what _merge_iters yields (helpers.py 55-127) from the
\* two generators, s and d being the pairs the generators last yielded; a pair from each
\* with the same from-norm raises RuntimeError
RECURSIVE MergeLoop(_, _, _)
MergeLoop(sys, maps, m) ==
    IF m.s = Stopped /\ m.d = Stopped THEN m
    ELSE IF m.s # Stopped /\ m.d # Stopped /\ Norm(sys, m.s[1][1]) = Norm(sys, m.d[1][1])
    THEN [m EXCEPT !.raised = TRUE]
    ELSE IF m.d = Stopped \/ (m.s # Stopped /\ TupleLt(Norm(sys, m.s[1][1]), Norm(sys, m.d[1][1])))
    THEN LET TakeDir(n) ==
                 MergeLoop(sys, maps,
                     [m EXCEPT !.out  = Append(@, [from |-> m.s[1][1], to |-> m.s[1][2], kind |-> "dir"]),
                               !.dir_rename_keys = @ \cup {m.s[1][1]},
                               !.s = n.item, !.dg = n.gen, !.diff = n.diff])
         IN TakeDir(DirNext(sys, maps.dirs, m.dg, m.diff))
    ELSE LET TakeFile(n) ==
                 MergeLoop(sys, maps,
                     [m EXCEPT !.out  = IF \E k \in m.dir_rename_keys : IsRelativeTo(sys, m.d[1][1], k)
                                        THEN @ ELSE Append(@, [from |-> m.d[1][1], to |-> m.d[1][2], kind |-> "file"]),
                               !.d = n.item, !.fg = n.gen, !.diff = n.diff])
         IN TakeFile(FileNext(sys, maps.files, m.fg, m.diff))

\* _DualWalk.get_combined_rename_chains(diff): the renames in the order yielded, the diff
\* as the two generators leave it, and whether an exception ended it; with two keys or
\* more, sorted(rename_map.keys()) of get_dir_rename_map compares two _Dir, which define
\* no order, and raises TypeError
CombinedRenameChains(c, walk, sfs, dfs) ==
    LET Merged(m) == [out |-> m.out, diff |-> m.diff, raised |-> m.raised]
        Merge(maps, s, d) ==
            Merged(MergeLoop(c.dst_sys, maps,
                             [s |-> s.item, d |-> d.item, dg |-> s.gen, fg |-> d.gen,
                              diff |-> d.diff, out |-> <<>>, dir_rename_keys |-> {},
                              raised |-> FALSE]))
        file_iter(maps, s) ==
            Merge(maps, s, FileNext(c.dst_sys, maps.files,
                                    NewGen(RenameKeys(c.dst_sys, maps.files)), s.diff))
        dir_iter(maps) ==
            IF Cardinality(DOMAIN maps.dirs) >= 2
            THEN [out |-> <<>>, diff |-> walk.diff, raised |-> TRUE]
            ELSE file_iter(maps, DirNext(c.dst_sys, maps.dirs,
                                         NewGen(Reverse(HashKeys(walk.dst_dir_hash))), walk.diff))
    IN dir_iter([dirs  |-> DirRenameMap(c.dst_sys, walk),
                 files |-> FileRenameMap(c, walk.diff, sfs, dfs)])

\* diff.get_rename_pairs(dw.src_dir_hash, dw.dst_dir_hash) of the whole-tree mode: the
\* combined chains of directories and files
GetGlobalRenamePairs(c, walk, sfs, dfs) == CombinedRenameChains(c, walk, sfs, dfs)

\* _OperationFactory.get_rename_ops, for a file or a directory
GetRenameOpsOf(r) ==
    <<Op(IF r.kind = "file" THEN "RenameFile" ELSE "RenameDir", r.from, None, r.to)>>

\* every operation ordered by the norm of its path alone
OpLtByNorm(sys, self, other) == TupleLt(Norm(sys, self.dst), Norm(sys, other.dst))

\* Operation.__lt__, and the __lt__ of the delete and trash operations
OpLt(sys, self, other) ==
    IF self.op \in {"DeleteFile", "DeleteDir", "TrashFile", "TrashDir"}
    THEN IF other.dst = <<>> THEN TRUE
         ELSE IF ZipEqual(Norm(sys, self.dst), Norm(sys, other.dst))
         THEN Len(self.dst) >= Len(other.dst)
         ELSE TupleLt(Norm(sys, self.dst), Norm(sys, other.dst))
    ELSE TupleLt(Norm(sys, self.dst), Norm(sys, other.dst))

\* list.sort(): each operation is put after the last one it is not less than
RECURSIVE SortOps(_, _, _)
SortOps(sys, done, todo) ==
    IF todo = <<>> THEN done
    ELSE LET o == Head(todo)
             n == IF \E i \in 1..Len(done) : ~OpLt(sys, o, done[i])
                  THEN CHOOSE i \in 1..Len(done) :
                          ~OpLt(sys, o, done[i]) /\ \A j \in (i + 1)..Len(done) : OpLt(sys, o, done[j])
                  ELSE 0
         IN SortOps(sys, SubSeq(done, 1, n) \o <<o>> \o SubSeq(done, n + 1, Len(done)), Tail(todo))

\* _get_operations with global_renames (operations.py 41-102): the operations in the
\* order yielded, the merged diff, and whether planning raised
GlobalOperations(c, sfs, dfs) ==
    LET Operations(walk, rc, df) ==
            LET renames == Flatten([i \in 1..Len(rc.out) |-> GetRenameOpsOf(rc.out[i])])
                deletes == IF ~c.delete_files THEN <<>>
                           ELSE Flatten([i \in 1..Len(df.dst_only_dirs) |->
                                            GetDeleteOps(c, df.dst_only_dirs[i], "dir")])
                                \o Flatten([i \in 1..Len(df.dst_only_files) |->
                                            GetDeleteOps(c, df.dst_only_files[i], "file")])
                updates == Flatten([i \in 1..Len(df.file_matches) |->
                                       GetUpdateOps(c, df.file_matches[i].s, df.file_matches[i].d, df)])
                mkdirs  == IF c.create_dir_tree
                           THEN Flatten([i \in 1..Len(df.src_only_dirs) |->
                                            GetCreateOps(df.src_only_dirs[i], "dir")])
                           ELSE IF c.create_files
                           THEN Flatten([i \in 1..Len(walk.necessary_dirs) |->
                                            GetCreateOps(walk.necessary_dirs[i], "dir")])
                           ELSE <<>>
                creates == mkdirs \o (IF c.create_files
                                      THEN Flatten([i \in 1..Len(df.src_only_files) |->
                                                       GetCreateOps(df.src_only_files[i], "file")])
                                      ELSE <<>>)
            IN [ops    |-> renames \o SortOps(c.dst_sys, <<>>, deletes)
                                   \o SortOps(c.dst_sys, <<>>, updates)
                                   \o SortOps(c.dst_sys, <<>>, creates),
                diff   |-> walk.diff,
                raised |-> rc.raised]
        Renamed(walk, rc) == Operations(walk, rc, rc.diff)
        Walked(walk) ==
            Renamed(walk, IF c.renames THEN GetGlobalRenamePairs(c, walk, sfs, dfs)
                          ELSE [out |-> <<>>, diff |-> walk.diff, raised |-> FALSE])
    IN Walked(WalkAll(c, sfs, dfs, <<RootTask>>,
                      [diff |-> EmptyDiff, necessary_dirs |-> <<>>,
                       src_dir_hash |-> <<>>, dst_dir_hash |-> <<>>]))

\* a plan that yields its groups last to first
PlanCreatesFirst ==
    /\ pc = "walk" /\ cfg.global_renames /\ ops = <<>> /\ work # <<>>
    /\ LET Made(p) ==
               /\ ops' = IF p.raised THEN <<>> ELSE Reverse(p.ops)
               /\ diffs' = Append(diffs, p.diff)
               /\ pc' = IF p.raised THEN "error" ELSE "walk"
       IN Made(GlobalOperations(cfg, src, dst))
    /\ work' = <<>>
    /\ UNCHANGED <<src, dst, trash, dst0, cfg, emitted, failed, skipped, run, prev, conn>>
    /\ UNCHANGED <<fvars, xvars>>

\* the run asks _get_operations for its first operation: the whole tree is read and the
\* plan is made; an exception of the planning ends the run
Plan ==
    /\ pc = "walk" /\ cfg.global_renames /\ ops = <<>> /\ work # <<>>
    /\ LET Made(p) ==
               /\ ops' = IF p.raised THEN <<>> ELSE p.ops
               /\ diffs' = Append(diffs, p.diff)
               /\ pc' = IF p.raised THEN "error" ELSE "walk"
       IN Made(GlobalOperations(cfg, src, dst))
    /\ work' = <<>>
    /\ UNCHANGED <<src, dst, trash, dst0, cfg, emitted, failed, skipped, run, prev, conn>>
    /\ UNCHANGED <<fvars, xvars>>

NextGlobal == Plan \/ PerformOp \/ Finish \/ Rerun

----------------------------------------------------------------------------
(* filter.py: PathFilter.                                                   *)
(* A string is split at "/" into parts and a part is a tuple of characters, *)
(* so "a/x.txt" is <<<<"a">>, <<"x", ".", "t", "x", "t">>>>, the directory  *)
(* path "a/" is <<<<"a">>, <<>>>> and the empty string is <<<<>>>>.         *)
(* The filter is the default one of a posix host: case-sensitive, hidden    *)
(* names included, glob characters active and not escaped.                  *)

EmptyStr == << <<>> >>

Star == <<"*">>

StarStar == <<"*", "*">>

\* a token of _tokenize: True, False or a pattern string
Plus == [kind |-> "+", pattern |-> EmptyStr]

Minus == [kind |-> "-", pattern |-> EmptyStr]

Pat(p) == [kind |-> "pattern", pattern |-> p]

RECURSIVE FnMatch(_, _)
\* one part of a glob against one name: * is [^/]*, ? is [^/], any other character itself
FnMatch(pat, name) ==
    IF pat = <<>> THEN name = <<>>
    ELSE IF Head(pat) = "*"
         THEN FnMatch(Tail(pat), name) \/ (name # <<>> /\ FnMatch(pat, Tail(name)))
    ELSE IF Head(pat) = "?"
         THEN name # <<>> /\ FnMatch(Tail(pat), Tail(name))
    ELSE name # <<>> /\ Head(name) = Head(pat) /\ FnMatch(Tail(pat), Tail(name))

RECURSIVE ReMatch(_, _, _, _)
\* glob.translate(recursive=True, include_hidden=True) and re.match up to \Z: the parts
\* i.. of the glob against the parts j.. of the path.  A part * that is not the last is
\* [^/]+/ and the last is [^/]+; a part ** that is not the last is (?:.+/)? and the last
\* is .*; any other part is its fnmatch translation, followed by / when it is not the last
ReMatch(parts, i, path, j) ==
    LET last == Len(parts)
        rest == Len(path) - j + 1
    IN IF i > last THEN j > Len(path)
       ELSE IF parts[i] = Star
            THEN IF i < last
                 THEN rest >= 2 /\ path[j] # <<>> /\ ReMatch(parts, i + 1, path, j + 1)
                 ELSE rest = 1 /\ path[j] # <<>>
       ELSE IF parts[i] = StarStar
            THEN IF i < last
                 THEN IF parts[i + 1] = StarStar
                      THEN ReMatch(parts, i + 1, path, j)
                      ELSE \E k \in 0..(rest - 1) :
                              /\ ~(k = 1 /\ path[j] = <<>>)
                              /\ ReMatch(parts, i + 1, path, j + k)
                 ELSE TRUE
       ELSE IF i < last
            THEN rest >= 2 /\ FnMatch(parts[i], path[j]) /\ ReMatch(parts, i + 1, path, j + 1)
            ELSE rest = 1 /\ FnMatch(parts[i], path[j])

\* segment.matcher.match(relpath)
Match(glob_pattern, path) == ReMatch(glob_pattern, 1, path, 1)

Segment(gp, act, rel, imp) ==
    [glob_pattern |-> gp, action |-> act, is_relative |-> rel, is_implicit |-> imp]

EndsWithSlash(p) == Len(p) >= 2 /\ p[Len(p)] = <<>>

\* pattern[:2] == "./"
IsRelativePattern(p) == Len(p) >= 2 /\ p[1] = <<".">>

\* the pattern without its "./"
StripRelative(p) == IF IsRelativePattern(p) THEN Tail(p) ELSE p

\* a part . or .. or a leading separator: _parse_pattern raises ValueError
BadPattern(p) ==
    LET body == StripRelative(p)
    IN body # EmptyStr
       /\ \/ \E i \in 1..Len(body) : body[i] \in {<<".">>, <<".", ".">>}
          \/ body[1] = <<>>

\* _parse_pattern on a pattern it accepts; is_dir is TRUE for an implied parent directory
\* and FALSE for None.  A glob_pattern of EmptyStr stands for the None it returns
ParsePattern(act, pattern, is_dir) ==
    LET body == StripRelative(pattern)
        gp   == IF is_dir /\ body # EmptyStr /\ ~EndsWithSlash(body)
                THEN Append(body, <<>>) ELSE body
    IN Segment(gp, act, IsRelativePattern(pattern), FALSE)

RECURSIVE RStrip(_)
\* pattern.rstrip("/")
RStrip(p) == IF EndsWithSlash(p) THEN RStrip(Front(p)) ELSE p

\* os.path.dirname
Dirname(p) == IF Len(p) <= 1 THEN EmptyStr ELSE RStrip(Front(p))

\* string concatenation parent.glob_pattern + segment.glob_pattern
Concat(p, q) == Front(p) \o <<p[Len(p)] \o q[1]>> \o Tail(q)

\* allow() and reject() take a segment from the generator
YieldTo(st, seg) ==
    [segments    |-> Append(st.segments, seg),
     tmp_allowed |-> IF seg.action THEN st.tmp_allowed \cup {seg.glob_pattern}
                     ELSE st.tmp_allowed,
     yielded     |-> Append(st.yielded, seg)]

RECURSIVE ImplicitParents(_, _)
\* the implicit parent directories of an allowed pattern, nearest first, up to the first
\* one that is already in _tmp_allowed
ImplicitParents(st, pattern) ==
    LET d   == Dirname(pattern)
        seg == ParsePattern(TRUE, d, TRUE)
    IN IF d = EmptyStr THEN st
       ELSE IF seg.glob_pattern \in st.tmp_allowed THEN st
       ELSE ImplicitParents(YieldTo(st, [seg EXCEPT !.is_implicit = TRUE]), d)

\* _get_segments for a pattern that is not relative; imp is TRUE when the caller is the
\* relative branch, which marks everything it receives as implicit
RootedSegments(st, act, pattern, imp) ==
    LET seg == ParsePattern(act, pattern, FALSE)
        st1 == YieldTo(st, [seg EXCEPT !.is_implicit = imp])
    IN IF act THEN ImplicitParents(st1, RStrip(pattern)) ELSE st1

RECURSIVE RelativeSegmentsAnyParent(_, _, _, _)
\* a relative branch that takes the implicit directory segments as parents too
RelativeSegmentsAnyParent(st, i, seg, segment_handled) ==
    IF i = 0 \/ ~st.segments[i].action
    THEN IF segment_handled THEN st ELSE YieldTo(st, [seg EXCEPT !.is_implicit = TRUE])
    ELSE LET parent == st.segments[i]
         IN IF EndsWithSlash(parent.glob_pattern)
            THEN RelativeSegmentsAnyParent(
                    RootedSegments(st, TRUE, Concat(parent.glob_pattern, seg.glob_pattern), TRUE),
                    i - 1, seg, TRUE)
            ELSE RelativeSegmentsAnyParent(st, i - 1, seg, segment_handled)

RECURSIVE RelativeSegments(_, _, _, _)
\* _get_segments for a relative pattern: the segments before it are visited last to first
\* up to the first rejecting one, and every explicit directory segment is a parent
RelativeSegments(st, i, seg, segment_handled) ==
    IF i = 0 \/ ~st.segments[i].action
    THEN IF segment_handled THEN st ELSE YieldTo(st, [seg EXCEPT !.is_implicit = TRUE])
    ELSE LET parent == st.segments[i]
         IN IF ~parent.is_implicit /\ EndsWithSlash(parent.glob_pattern)
            THEN RelativeSegments(
                    RootedSegments(st, TRUE, Concat(parent.glob_pattern, seg.glob_pattern), TRUE),
                    i - 1, seg, TRUE)
            ELSE RelativeSegments(st, i - 1, seg, segment_handled)

\* _get_segments raises ValueError
SegmentsRaise(act, pattern) ==
    \/ BadPattern(pattern)
    \/ IsRelativePattern(pattern) /\ StripRelative(pattern) # EmptyStr /\ ~act

GetSegments(st, act, pattern) ==
    LET seg == ParsePattern(act, pattern, FALSE)
    IN IF seg.glob_pattern = EmptyStr THEN st
       ELSE IF ~seg.is_relative THEN RootedSegments(st, act, pattern, FALSE)
       ELSE RelativeSegments(st, Len(st.segments), seg, FALSE)

\* the fields of the filter a call of allow or reject works on
FilterState(segs, allowed) == [segments |-> segs, tmp_allowed |-> allowed, yielded |-> <<>>]

AllowPattern(segs, allowed, pattern) == GetSegments(FilterState(segs, allowed), TRUE, pattern)

RejectPattern(segs, pattern) == GetSegments(FilterState(segs, {}), FALSE, pattern)

RECURSIVE FilterLastMatch(_, _, _)
\* a filter in which the last matching segment decides
FilterLastMatch(segs, i, path) ==
    IF i > Len(segs) THEN FALSE
    ELSE IF \E j \in (i + 1)..Len(segs) : Match(segs[j].glob_pattern, path)
         THEN FilterLastMatch(segs, i + 1, path)
    ELSE IF Match(segs[i].glob_pattern, path) THEN segs[i].action
    ELSE FALSE

RECURSIVE Filter(_, _, _)
\* PathFilter.filter with the default of Filter.__init__: the loop from segment i on
Filter(segs, i, path) ==
    IF i > Len(segs) THEN FALSE
    ELSE IF Match(segs[i].glob_pattern, path) THEN segs[i].action
    ELSE Filter(segs, i + 1, path)

Advance ==
    /\ pos' = pos + 1
    /\ fstate' = IF pos = Len(filter_string) THEN "ready" ELSE "compile"

\* __init__ takes a + or a - token
TakeAction ==
    /\ fstate = "compile" /\ filter_string[pos].kind # "pattern"
    /\ action' = (filter_string[pos].kind = "+")
    /\ Advance
    /\ UNCHANGED <<filter_string, segments, tmp_allowed, yielded, relpath, result>>
    /\ UNCHANGED <<svars, xvars>>

\* __init__ takes a pattern after a +: allow(token)
Allow ==
    /\ fstate = "compile" /\ filter_string[pos].kind = "pattern" /\ action
    /\ LET pattern == filter_string[pos].pattern
           st      == AllowPattern(segments, tmp_allowed, pattern)
       IN IF SegmentsRaise(TRUE, pattern)
          THEN fstate' = "error" /\ UNCHANGED <<pos, segments, tmp_allowed, yielded>>
          ELSE /\ segments' = st.segments
               /\ tmp_allowed' = st.tmp_allowed
               /\ yielded' = st.yielded
               /\ Advance
    /\ UNCHANGED <<filter_string, action, relpath, result>>
    /\ UNCHANGED <<svars, xvars>>

\* __init__ takes a pattern after a -: reject(token)
Reject ==
    /\ fstate = "compile" /\ filter_string[pos].kind = "pattern" /\ ~action
    /\ LET pattern == filter_string[pos].pattern
           st      == RejectPattern(segments, pattern)
       IN IF SegmentsRaise(FALSE, pattern)
          THEN fstate' = "error" /\ tmp_allowed' = {} /\ UNCHANGED <<pos, segments, yielded>>
          ELSE /\ segments' = st.segments
               /\ tmp_allowed' = st.tmp_allowed
               /\ yielded' = st.yielded
               /\ Advance
    /\ UNCHANGED <<filter_string, action, relpath, result>>
    /\ UNCHANGED <<svars, xvars>>

\* the names the paths and the patterns of the model are made of
nA == <<"a">>

nB == <<"b">>

nC == <<"c">>

nD == <<"d">>

n0 == <<"0">>

n1 == <<"1">>

n2 == <<"2">>

nXTxt == <<"x", ".", "t", "x", "t">>

nStarTxt == <<"*", ".", "t", "x", "t">>

nAudio == <<"a", "u", "d", "i", "o">>

nMusic == <<"m", "u", "s", "i", "c">>

nVideo == <<"v", "i", "d", "e", "o">>

nOST == <<"O", "S", "T">>

nXFlac == <<"x", ".", "f", "l", "a", "c">>

nXJpg == <<"x", ".", "j", "p", "g">>

nStarFlac == <<"*", ".", "f", "l", "a", "c">>

Dot == <<".">>

Slash == <<>>

MaxTokens == 3

MaxDepth == 3

PatternPool ==
    { <<nA, Slash>>, <<nB, Slash>>, <<nA, nB, Slash>>, <<nA, n1>>, <<nA, nB, n1>>,
      <<StarStar>>, <<Star>>, <<nA, StarStar>>, <<StarStar, n1>>,
      <<Dot, n1>>, <<Dot, nB, n1>>, <<Dot, nB, Slash>> }

Tokens == {Plus, Minus} \cup {Pat(p) : p \in PatternPool}

\* "+ a/*.txt - a/**"
PrecedenceExample == <<Plus, Pat(<<nA, nStarTxt>>), Minus, Pat(<<nA, StarStar>>)>>

\* "+ audio/music/**/*.flac - **/*/ **/*"
AncestorExample ==
    <<Plus, Pat(<<nAudio, nMusic, StarStar, nStarFlac>>),
      Minus, Pat(<<StarStar, Star, Slash>>), Pat(<<StarStar, Star>>)>>

\* "+ a/ - b/ + c/ d/ ./1"
RelativeExample ==
    <<Plus, Pat(<<nA, Slash>>), Minus, Pat(<<nB, Slash>>),
      Plus, Pat(<<nC, Slash>>), Pat(<<nD, Slash>>), Pat(<<Dot, n1>>)>>

\* "./0 a/ b/ ./1 c/ c/d/ ./2"
RelpathsExample ==
    <<Pat(<<Dot, n0>>), Pat(<<nA, Slash>>), Pat(<<nB, Slash>>), Pat(<<Dot, n1>>),
      Pat(<<nC, Slash>>), Pat(<<nC, nD, Slash>>), Pat(<<Dot, n2>>)>>

\* "- ./1" and "../a", which __init__ refuses
RefusedExamples == {<<Minus, Pat(<<Dot, n1>>)>>, <<Pat(<<<<".", ".">>, nA>>)>>}

FilterStrings ==
    UNION {[1..n -> Tokens] : n \in 0..MaxTokens}
    \cup {PrecedenceExample, AncestorExample, RelativeExample, RelpathsExample}
    \cup RefusedExamples

ExamplePaths ==
    { <<nA, nXTxt>>, <<nA, nB, nXTxt>>,
      <<nAudio, Slash>>, <<nAudio, nMusic, Slash>>, <<nAudio, nMusic, nOST, Slash>>,
      <<nAudio, nMusic, nOST, nXFlac>>, <<nAudio, nMusic, nOST, nXJpg>>, <<nVideo, Slash>>,
      <<n0>>, <<nC, n1>>, <<nD, n1>>, <<nC, n2>>, <<nC, nD, n2>>, <<nD, n2>>,
      <<nC, Slash>>, <<nD, Slash>> }

\* the paths a walk asks about: files as they are, directories with a trailing separator
Relpaths ==
    {p \o t : p \in UNION {[1..n -> {nA, nB, n1}] : n \in 1..MaxDepth},
              t \in {<<>>, <<Slash>>}}
    \cup ExamplePaths

\* filter(relpath) on the compiled filter.  The call changes nothing of the filter, so
\* one call in a behaviour reaches every pair of a filter and a path
FilterPath ==
    /\ fstate = "ready" /\ relpath = <<>>
    /\ \E p \in Relpaths :
          /\ relpath' = p
          /\ result' = Filter(segments, 1, p)
    /\ UNCHANGED <<filter_string, pos, action, segments, tmp_allowed, yielded, fstate>>
    /\ UNCHANGED <<svars, xvars>>

NextFilter == TakeAction \/ Allow \/ Reject \/ FilterPath

\* PathFilter.__init__ before the first token
InitFilter ==
    /\ pos = 1 /\ action = TRUE
    /\ segments = <<>> /\ tmp_allowed = {} /\ yielded = <<>>
    /\ fstate = IF filter_string = <<>> THEN "ready" ELSE "compile"
    /\ relpath = <<>> /\ result = FALSE

\* the filter of a run that names none: PathFilter("**")
DefaultFilter ==
    LET st == AllowPattern(<<>>, {}, <<StarStar>>)
    IN /\ filter_string = <<Pat(<<StarStar>>)>>
       /\ pos = 2 /\ action = TRUE
       /\ segments = st.segments /\ tmp_allowed = st.tmp_allowed /\ yielded = st.yielded
       /\ fstate = "ready"
       /\ relpath = <<>> /\ result = FALSE

----------------------------------------------------------------------------
(* helpers.py: _UniqueIDGenerator.                                          *)
(* Time is counted in units of the hour by which a zone with daylight       *)
(* saving sets its clocks back, so that one unit is the length of the fold. *)

MaxClock == 3

MaxCalls == 3

Threads == {1, 2}

\* the first instant of standard time in the zone that has daylight saving
FoldAt == 2

\* datetime.fromtimestamp(t): local time, which in a zone with daylight saving is one
\* unit ahead until the clocks are set back
FromTimestamp(zone, t) == IF zone = "dst" /\ t < FoldAt THEN t + 1 ELSE t

\* dt.strftime("%Y%m%d_%H%M%S"), followed by "." and the counter unless it is zero: the
\* text is the pair of the local time shown and the counter
UniqueId(zone, t, n) == <<FromTimestamp(zone, t), n>>

\* no thread is inside get_timestamp
NotCalling == [t \in Threads |-> [pc |-> "out", current_time |-> 0]]

\* no identifier is asked for
NoIds ==
    /\ clock = 1 /\ tz = "utc" /\ last_time = 0 /\ counter = 0 /\ lock = 0
    /\ caller = NotCalling /\ ids = <<>>

\* no tree is walked along its links
NoWalk ==
    /\ stack = <<>> /\ visited_dirs = {} /\ scanned = <<>> /\ reported = {}
    /\ src_ancestors = {} /\ dst_ancestors = {} /\ circular = <<>>

\* the system clock changes, forwards or backwards
ClockMoves ==
    /\ \E t \in 1..MaxClock : t # clock /\ clock' = t
    /\ UNCHANGED <<tz, last_time, counter, lock, caller, ids>>
    /\ UNCHANGED <<svars, fvars, wvars>>

\* a thread calls get_timestamp and takes the lock: with cls._lock
AcquireLock(t) ==
    /\ caller[t].pc = "out" /\ lock = 0
    /\ Len(ids) + Cardinality({u \in Threads : caller[u].pc # "out"}) < MaxCalls
    /\ lock' = t
    /\ caller' = [caller EXCEPT ![t].pc = "locked"]
    /\ UNCHANGED <<clock, tz, last_time, counter, ids>>
    /\ UNCHANGED <<svars, fvars, wvars>>

\* current_time = int(time.time())
ReadTime(t) ==
    /\ caller[t].pc = "locked"
    /\ caller' = [caller EXCEPT ![t] = [pc |-> "timed", current_time |-> clock]]
    /\ UNCHANGED <<clock, tz, last_time, counter, lock, ids>>
    /\ UNCHANGED <<svars, fvars, wvars>>

\* the rest of the body (helpers.py 18-35): the attributes are updated, the identifier is
\* returned and the lock is released
ReturnId(t) ==
    /\ caller[t].pc = "timed"
    /\ LET current_time == caller[t].current_time
       IN /\ last_time' = IF current_time > last_time THEN current_time
                          ELSE IF current_time = last_time THEN last_time
                          ELSE last_time + 1
          /\ counter' = IF current_time = last_time THEN counter + 1 ELSE 0
    /\ ids' = Append(ids, UniqueId(tz, last_time', counter'))
    /\ lock' = 0
    /\ caller' = [caller EXCEPT ![t] = [pc |-> "out", current_time |-> 0]]
    /\ UNCHANGED <<clock, tz>>
    /\ UNCHANGED <<svars, fvars, wvars>>

NextIds == ClockMoves \/ \E t \in Threads : AcquireLock(t) \/ ReadTime(t) \/ ReturnId(t)

----------------------------------------------------------------------------
(* Walks that follow symbolic links (follow_symlinks).                      *)
(* A tree may hold links to directories, [kind |-> "link", to |-> target],  *)
(* the target being the canonical path of a directory of the tree, and      *)
(* directories that cannot be read, whose listing raises PermissionError.   *)
(* What lies under a link is found at the canonical path of the link.       *)

LinkEntry(t) == [kind |-> "link", size |-> 0, mtime |-> 0, to |-> t]

LockedDir == [kind |-> "dir", size |-> 0, mtime |-> 0, mode |-> 0]

\* Path.resolve(): the canonical path of p
RECURSIVE Resolve(_, _)
Resolve(fs, p) ==
    IF p = <<>> THEN <<>>
    ELSE LET q == Append(Resolve(fs, Front(p)), Last(p))
         IN IF q \in DOMAIN fs /\ fs[q].kind = "link" THEN fs[q].to ELSE q

\* os.scandir(p) raises OSError: no permission to read the directory
ScanFails(fs, p) ==
    LET d == Resolve(fs, p) IN d \in DOMAIN fs /\ "mode" \in DOMAIN fs[d]

\* the entries of the directory p for which is_dir(follow_symlinks=True) is true and
\* those for which it is false, under the names they have below p
SubDirs(fs, p) ==
    SortByName({Append(p, Last(q)) : q \in {c \in Children(fs, Resolve(fs, p)) : fs[c].kind # "file"}})

NonDirs(fs, p) ==
    SortByName({Append(p, Last(q)) : q \in {c \in Children(fs, Resolve(fs, p)) : fs[c].kind = "file"}})

AsRelpathNoSep(p, is_dir) == [i \in 1..Len(p) |-> <<p[i]>>]

\* str(path.relative_to(root)), with the separator after it for a directory
AsRelpath(p, is_dir) ==
    [i \in 1..Len(p) |-> <<p[i]>>] \o (IF is_dir THEN <<Slash>> ELSE <<>>)

PathItem(p) == [path |-> p, mark |-> FALSE]

MarkItem(d) == [path |-> d, mark |-> TRUE]

\* one turn of the while loop of _walk (core.py 777-829) with follow_symlinks, and the
\* body of the for loop of _scandir (core.py 715-769) for what the turn yields
WalkDir ==
    /\ fstate = "ready" /\ stack # <<>>
    /\ LET top  == stack[Len(stack)]
           rest == SubSeq(stack, 1, Len(stack) - 1)
           d    == Resolve(src, top.path)
           dirs == SubDirs(src, top.path)
           kept == SelectSeq(dirs, LAMBDA c : Filter(segments, 1, AsRelpath(c, TRUE)))
           empty_dir == /\ top.path # <<>> /\ dirs = <<>> /\ NonDirs(src, top.path) = <<>>
                        /\ Filter(segments, 1, AsRelpath(top.path, TRUE))
       IN IF top.mark
          THEN /\ visited_dirs' = visited_dirs \ {top.path}
               /\ stack' = rest
               /\ UNCHANGED <<scanned, reported, circular>>
          ELSE IF d \in visited_dirs
          THEN /\ circular' = Append(circular, top.path)
               /\ stack' = rest
               /\ UNCHANGED <<visited_dirs, scanned, reported>>
          ELSE IF ScanFails(src, top.path)
          THEN /\ visited_dirs' = visited_dirs \cup {d}
               /\ stack' = Append(rest, MarkItem(d))
               /\ UNCHANGED <<scanned, reported, circular>>
          ELSE /\ visited_dirs' = visited_dirs \cup {d}
               /\ scanned' = Append(scanned, top.path)
               /\ reported' = IF empty_dir THEN reported
                              ELSE reported \cup {f \in Range(NonDirs(src, top.path)) :
                                                     Filter(segments, 1, AsRelpath(f, FALSE))}
               /\ stack' = Append(rest, MarkItem(d))
                           \o [i \in 1..Len(kept) |-> PathItem(kept[Len(kept) + 1 - i])]
               /\ UNCHANGED circular
    /\ UNCHANGED <<src_ancestors, dst_ancestors>>
    /\ UNCHANGED <<svars, fvars, gvars>>

NextWalk == TakeAction \/ Allow \/ Reject \/ WalkDir

\* dir_list of the paired walk with follow_symlinks: the entries a link leads to
ListLinks(fs, p, present) ==
    IF ~present THEN NoList
    ELSE [has    |-> TRUE,
          parent |-> p,
          dirs   |-> SubDirs(fs, p),
          files  |-> NonDirs(fs, p),
          meta   |-> [f \in Range(NonDirs(fs, p)) |->
                         LET e == fs[Append(Resolve(fs, p), Last(f))]
                         IN [size |-> e.size, mtime |-> e.mtime]]]

\* the end of dual_walk for a pair of directories (dual_walk.py 412-416)
LeaveTask(s, hs, d, hd) ==
    [t |-> "leave", s |-> s, has_s |-> hs, d |-> d, has_d |-> hd, bottom_up |-> FALSE,
     diff |-> EmptyDiff]

\* dual_walk(src_path, dst_path) with follow_symlinks up to its first recursive call or
\* yield (dual_walk.py 295-383): the two checks for a circular link, the two listings,
\* the diff; a return before the diff leaves the sets as they are at that line
Enter ==
    /\ pc = "walk" /\ work # <<>> /\ Head(work).t = "scan"
    /\ LET w  == Head(work)
           src_true_path == Resolve(src, w.s)
           dst_true_path == Resolve(dst, w.d)
           src_loop == w.has_s /\ src_true_path \in src_ancestors
           dst_loop == ~src_loop /\ w.has_d /\ dst_true_path \in dst_ancestors
           fails == (w.has_s /\ ScanFails(src, w.s)) \/ (w.has_d /\ ScanFails(dst, w.d))
           df == DirDiff(cfg.dst_sys, cfg.force,
                         ListLinks(src, w.s, w.has_s), ListLinks(dst, w.d, w.has_d))
       IN /\ src_ancestors' = IF w.has_s /\ ~src_loop
                              THEN src_ancestors \cup {src_true_path} ELSE src_ancestors
          /\ dst_ancestors' = IF w.has_d /\ ~src_loop /\ ~dst_loop
                              THEN dst_ancestors \cup {dst_true_path} ELSE dst_ancestors
          /\ circular' = IF src_loop THEN Append(circular, <<"src", w.s>>)
                         ELSE IF dst_loop THEN Append(circular, <<"dst", w.d>>)
                         ELSE circular
          /\ work' = IF src_loop \/ dst_loop \/ fails THEN Tail(work)
                     ELSE WalkSteps(df, w.bottom_up)
                          \o <<LeaveTask(src_true_path, w.has_s, dst_true_path, w.has_d)>>
                          \o Tail(work)
    /\ UNCHANGED <<stack, visited_dirs, scanned, reported>>
    /\ UNCHANGED <<src, dst, trash, dst0, cfg, ops, emitted, failed, skipped, diffs, run, prev, pc, conn>>
    /\ UNCHANGED <<fvars, gvars>>

\* dual_walk yields the diff of a pair of directories
YieldDiff ==
    /\ pc = "walk" /\ work # <<>> /\ Head(work).t = "yield"
    /\ diffs' = Append(diffs, Head(work).diff)
    /\ work' = Tail(work)
    /\ UNCHANGED <<src, dst, trash, dst0, cfg, ops, emitted, failed, skipped, run, prev, pc, conn>>
    /\ UNCHANGED <<fvars, xvars>>

\* dual_walk reaches its end for a pair of directories (dual_walk.py 412-416)
Leave ==
    /\ pc = "walk" /\ work # <<>> /\ Head(work).t = "leave"
    /\ src_ancestors' = IF Head(work).has_s THEN src_ancestors \ {Head(work).s} ELSE src_ancestors
    /\ dst_ancestors' = IF Head(work).has_d THEN dst_ancestors \ {Head(work).d} ELSE dst_ancestors
    /\ work' = Tail(work)
    /\ UNCHANGED <<stack, visited_dirs, scanned, reported, circular>>
    /\ UNCHANGED <<src, dst, trash, dst0, cfg, ops, emitted, failed, skipped, diffs, run, prev, pc, conn>>
    /\ UNCHANGED <<fvars, gvars>>

NextLinks == Enter \/ YieldDiff \/ Leave \/ Finish

----------------------------------------------------------------------------
(* Initial states: the pairs of trees and the configurations a run starts from *)

MaxSize == 1

MaxMtime == 2

MaxFiles == 3

MaxTotal == 4

Metas == [size : 0..MaxSize, mtime : 1..MaxMtime]

FileEntries == {FileEntry(m) : m \in Metas}

\* every option that makes the destination a mirror of the source is on
BaseConfig ==
    [dst_sys |-> "posix", create_files |-> TRUE, create_dir_tree |-> TRUE, renames |-> TRUE,
     delete_files |-> TRUE, trash |-> FALSE, force_update |-> TRUE, force |-> TRUE,
     metadata_only |-> FALSE, rename_threshold |-> 1, dry_run |-> FALSE,
     global_renames |-> FALSE]

TreesOver(paths, entries, n) ==
    {fs \in UNION {[S -> entries] : S \in {T \in SUBSET paths : Cardinality(T) <= n}} :
        WellFormed(fs)}

\* on a case-insensitive file system no two entries differ only in case
CaseUnique(sys, fs) ==
    \A p, q \in DOMAIN fs : Norm(sys, p) = Norm(sys, q) => p = q

\* a directory holds no file of its own
DirsHoldNoData(fs) == \A p \in DOMAIN fs : fs[p].kind = "dir" => fs[p] = DirEntry

FlatPaths == {<<"a">>, <<"b">>, <<"c">>}

FlatTrees == TreesOver(FlatPaths, FileEntries, MaxFiles)

NestedPaths == {<<"a">>, <<"A">>, <<"b">>, <<"a", "c">>, <<"A", "c">>, <<"b", "c">>}

NestedTrees ==
    {fs \in TreesOver(NestedPaths, {DirEntry} \cup {FileEntry(m) : m \in {x \in Metas : x.size = MaxSize}},
                      MaxFiles) : DirsHoldNoData(fs)}

Configs ==
    {[BaseConfig EXCEPT !.dst_sys = sys] : sys \in {"posix", "nt"}}
    \cup {[BaseConfig EXCEPT !.dry_run = TRUE], [BaseConfig EXCEPT !.trash = TRUE],
          [BaseConfig EXCEPT !.dry_run = TRUE, !.trash = TRUE],
          [BaseConfig EXCEPT !.force = FALSE]}

InitRun ==
    /\ trash = EmptyTree
    /\ dst0 = dst
    /\ work = <<RootTask>>
    /\ ops = <<>> /\ emitted = <<>> /\ failed = <<>> /\ skipped = <<>> /\ diffs = <<>>
    /\ run = 1
    /\ prev = NoRun
    /\ pc = "walk"
    /\ conn = "up"
    /\ NoIds /\ NoWalk

\* the same names on both sides, each side giving every name a signature of its own
PermTrees ==
    {fs \in [FlatPaths -> {FileEntry([size |-> MaxSize, mtime |-> t]) : t \in 1..MaxFiles}] :
        \A p, q \in FlatPaths : fs[p] = fs[q] => p = q}

Init ==
    /\ \/ /\ cfg = BaseConfig
          /\ src \in FlatTrees
          /\ dst \in FlatTrees
          /\ Cardinality(DOMAIN src) + Cardinality(DOMAIN dst) <= MaxTotal
       \/ /\ cfg \in Configs
          /\ src \in NestedTrees
          /\ dst \in {fs \in NestedTrees : CaseUnique(cfg.dst_sys, fs)}
          /\ Cardinality(DOMAIN src) + Cardinality(DOMAIN dst) <= MaxTotal
       \/ /\ cfg = BaseConfig
          /\ src \in PermTrees
          /\ dst \in PermTrees
    /\ InitRun
    /\ DefaultFilter

Spec == Init /\ [][Next]_vars

GlobalConfigs ==
    {[BaseConfig EXCEPT !.global_renames = TRUE, !.dst_sys = sys] : sys \in {"posix", "nt"}}
    \cup {[BaseConfig EXCEPT !.global_renames = TRUE, !.trash = TRUE]}

\* a run with global renames on a pair of nested trees
InitGlobal ==
    /\ cfg \in GlobalConfigs
    /\ src \in NestedTrees
    /\ dst \in {fs \in NestedTrees : CaseUnique(cfg.dst_sys, fs)}
    /\ Cardinality(DOMAIN src) + Cardinality(DOMAIN dst) <= MaxTotal
    /\ InitRun
    /\ DefaultFilter

SpecGlobal == InitGlobal /\ [][NextGlobal]_vars

\* a run to a remote destination, whose connection may be lost at any point
InitRemote ==
    /\ cfg \in {BaseConfig, [BaseConfig EXCEPT !.metadata_only = TRUE]}
    /\ src \in NestedTrees
    /\ dst \in NestedTrees
    /\ Cardinality(DOMAIN src) + Cardinality(DOMAIN dst) <= MaxTotal
    /\ InitRun
    /\ DefaultFilter

SpecRemote == InitRemote /\ [][Disconnect \/ Scan \/ Yield \/ PerformOp \/ Finish]_vars

\* one directory on each side, of files and directories whose names may differ only in case
CaseTrees ==
    TreesOver({<<"ab">>, <<"Ab">>, <<"aB">>, <<"b">>},
              {DirEntry, FileEntry([size |-> MaxSize, mtime |-> 1])}, MaxFiles)

\* a run to a case-insensitive destination from a source that tells the cases apart
InitCase ==
    /\ cfg \in {[BaseConfig EXCEPT !.dst_sys = "nt", !.force = f] : f \in BOOLEAN}
    /\ src \in CaseTrees
    /\ dst \in {fs \in CaseTrees : CaseUnique(cfg.dst_sys, fs)}
    /\ InitRun
    /\ DefaultFilter

SpecCase == InitCase /\ [][Next]_vars

\* no run: the filter is compiled and asked on its own
NoSync ==
    /\ src = EmptyTree /\ dst = EmptyTree /\ trash = EmptyTree /\ dst0 = EmptyTree
    /\ cfg = BaseConfig
    /\ work = <<>> /\ ops = <<>> /\ emitted = <<>> /\ failed = <<>> /\ skipped = <<>>
    /\ diffs = <<>> /\ run = 1 /\ prev = NoRun /\ pc = "done" /\ conn = "up"

InitFilterString ==
    /\ filter_string \in FilterStrings
    /\ InitFilter
    /\ NoSync
    /\ NoIds /\ NoWalk

SpecFilter == InitFilterString /\ [][NextFilter]_vars

\* a process whose threads ask for identifiers while the clock moves
InitIds ==
    /\ clock \in 1..MaxClock /\ tz \in {"utc", "dst"}
    /\ last_time = 0 /\ counter = 0 /\ lock = 0
    /\ caller = NotCalling /\ ids = <<>>
    /\ NoSync /\ DefaultFilter /\ NoWalk

SpecIds == InitIds /\ [][NextIds]_vars

\* trees with links and unreadable directories: the directories a and b, a file c in each
\* and in the root
LinkPaths == {<<"a">>, <<"b">>, <<"c">>, <<"a", "c">>, <<"b", "c">>}

LinkTrees ==
    {fs \in UNION {[S -> {DirEntry, LockedDir, FileEntry([size |-> MaxSize, mtime |-> 1])}
                         \cup {LinkEntry(t) : t \in {<<>>, <<"a">>, <<"b">>}}] :
                      S \in SUBSET LinkPaths} :
        /\ \A p \in DOMAIN fs :
              /\ Last(p) = "c" <=> fs[p].kind = "file"
              /\ Len(p) = 2 => Front(p) \in DOMAIN fs /\ fs[Front(p)].kind = "dir"
              /\ fs[p].kind = "link" =>
                    /\ fs[p].to # p
                    /\ fs[p].to = <<>> \/ (fs[p].to \in DOMAIN fs /\ fs[fs[p].to].kind = "dir")}

\* "+ a/ a/c", "- a/ + **", "+ b/ **/c", "- b/c + **", "- a/ c + **", "+ **"
WalkFilters ==
    { <<Plus, Pat(<<nA, Slash>>), Pat(<<nA, nC>>)>>,
      <<Minus, Pat(<<nA, Slash>>), Plus, Pat(<<StarStar>>)>>,
      <<Plus, Pat(<<nB, Slash>>), Pat(<<StarStar, nC>>)>>,
      <<Minus, Pat(<<nB, nC>>), Plus, Pat(<<StarStar>>)>>,
      <<Minus, Pat(<<nA, Slash>>), Pat(<<nC>>), Plus, Pat(<<StarStar>>)>>,
      <<Plus, Pat(<<StarStar>>)>> }

\* _scandir(root, filter=..., follow_symlinks=True) on a tree with links
InitWalk ==
    /\ filter_string \in WalkFilters
    /\ InitFilter
    /\ src \in LinkTrees
    /\ dst = EmptyTree /\ trash = EmptyTree /\ dst0 = EmptyTree
    /\ cfg = BaseConfig
    /\ work = <<>> /\ ops = <<>> /\ emitted = <<>> /\ failed = <<>> /\ skipped = <<>>
    /\ diffs = <<>> /\ run = 1 /\ prev = NoRun /\ pc = "done" /\ conn = "up"
    /\ stack = <<PathItem(<<>>)>> /\ visited_dirs = {} /\ scanned = <<>> /\ reported = {}
    /\ src_ancestors = {} /\ dst_ancestors = {} /\ circular = <<>>
    /\ NoIds

SpecWalk == InitWalk /\ [][NextWalk]_vars

\* the paired walk with follow_symlinks on two trees with links
InitLinks ==
    /\ cfg = BaseConfig
    /\ src \in LinkTrees /\ dst \in LinkTrees
    /\ Cardinality(DOMAIN src) + Cardinality(DOMAIN dst) <= MaxTotal
    /\ trash = EmptyTree /\ dst0 = dst
    /\ work = <<RootTask>>
    /\ ops = <<>> /\ emitted = <<>> /\ failed = <<>> /\ skipped = <<>> /\ diffs = <<>>
    /\ run = 1 /\ prev = NoRun /\ pc = "walk" /\ conn = "up"
    /\ NoWalk /\ NoIds /\ DefaultFilter

SpecLinks == InitLinks /\ [][NextLinks]_vars

----------------------------------------------------------------------------
(* Convergence and idempotence *)

\* the entries of a tree, each under its name as the destination system compares names
Content(sys, fs) == {<<Norm(sys, p), fs[p]>> : p \in DOMAIN fs}

Mirroring(c) ==
    /\ c.create_files /\ c.create_dir_tree /\ c.renames /\ c.delete_files
    /\ c.force_update /\ c.force /\ ~c.dry_run

\* equal mtimes go with equal content wherever the two trees hold a file of the same name
MtimeTellsContent(sys, sfs, dfs) ==
    \A p \in DOMAIN sfs, q \in DOMAIN dfs :
        (Norm(sys, p) = Norm(sys, q) /\ sfs[p].kind = "file" /\ dfs[q].kind = "file"
            /\ sfs[p].mtime = dfs[q].mtime) => sfs[p].size = dfs[q].size

RunSucceeded == pc = "done" /\ failed = <<>> /\ skipped = <<>>

\* C1: after a non-dry run with every mirroring option on and every operation succeeding,
\* the destination holds exactly the entries of the source, each file with the source's
\* content (for sources whose names do not collide on the destination system, and trees
\* in which equal mtimes go with equal content)
C1_Convergence ==
    (/\ run = 1 /\ RunSucceeded /\ Mirroring(cfg)
     /\ CaseUnique(cfg.dst_sys, src)
     /\ MtimeTellsContent(cfg.dst_sys, src, dst0))
        => Content(cfg.dst_sys, dst) = Content(cfg.dst_sys, src)

\* C2: a second run on the result of a first run whose operations all succeeded emits
\* no operation
C2_Idempotence ==
    (run = 2 /\ ~cfg.dry_run /\ prev.failed = <<>> /\ prev.skipped = <<>>) => emitted = <<>>

----------------------------------------------------------------------------
(* Rename cycles *)

RECURSIVE Orbit(_, _, _)
Orbit(map, p, seen) ==
    IF p \in seen \/ p \notin DOMAIN map THEN seen ELSE Orbit(map, map[p], seen \cup {p})

\* the cycles of a rename map, each as the set of its destination paths
Cycles(map) == {O \in {Orbit(map, p, {}) : p \in DOMAIN map} : \A q \in O : map[q] \in O}

\* the renames of a stream that take a file from, or put a file at, a path of the cycle
RenamesOf(stream, C) ==
    SelectSeq(stream, LAMBDA o : o.op = "RenameFile" /\ (o.dst \in C \/ o.target \in C))

\* one member goes to the temporary name, the other links follow, the temporary name
\* goes to the first member's target
CycleShape(rs, C, map) ==
    /\ Len(rs) = Cardinality(C) + 1
    /\ rs[1].dst \in C
    /\ rs[1].target = AddSuffix(map[rs[1].dst], ".tempmove")
    /\ rs[Len(rs)].dst = rs[1].target
    /\ rs[Len(rs)].target = map[rs[1].dst]
    /\ {<<rs[i].dst, rs[i].target>> : i \in 2..(Len(rs) - 1)}
           = {<<q, map[q]>> : q \in C \ {rs[1].dst}}

----------------------------------------------------------------------------
(* Rename candidates *)

\* the path without the ".tempmove" suffix of a cycle's temporary name
StripTemp(p) ==
    IF \E q \in DOMAIN dst0 \cup DOMAIN src : q # <<>> /\ AddSuffix(q, ".tempmove") = p
    THEN CHOOSE q \in DOMAIN dst0 \cup DOMAIN src : q # <<>> /\ AddSuffix(q, ".tempmove") = p
    ELSE p

\* a rename of a chain, as opposed to the case rename that follows an update
IsChainRename(o) ==
    o.op = "RenameFile" /\ Norm(cfg.dst_sys, o.dst) # Norm(cfg.dst_sys, o.target)

Files(fs) == {p \in DOMAIN fs : fs[p].kind = "file"}

Signature(fs, p) == [size |-> fs[p].size, mtime |-> fs[p].mtime]

IgnoredSoFar(side) ==
    UNION {IF side = "src" THEN diffs[i].ignored_src_entries ELSE diffs[i].ignored_dst_entries :
              i \in 1..Len(diffs)}

\* the file is large enough and has the only such signature among the files of its tree
CandidateInTree(fs, ignored, p) ==
    /\ p \in Files(fs)
    /\ fs[p].size >= cfg.rename_threshold
    /\ \A q \in Files(fs) \ ignored : q # p => Signature(fs, q) # Signature(fs, p)

\* the file is large enough and has the only such signature among the files of the diff
CandidateInDiff(meta, ignored, p) ==
    /\ p \in DOMAIN meta /\ p \notin ignored
    /\ meta[p].size >= cfg.rename_threshold
    /\ \A q \in DOMAIN meta \ ignored : q # p => meta[q] # meta[p]

----------------------------------------------------------------------------
(* Weak matches and dry runs *)

Stream == emitted \o ops

\* an update of a file whose name differs from the source's name, which it can only in case
IsWeakUpdate(o) == o.op = "UpdateFile" /\ Last(o.src) # Last(o.dst)

Done(o) == o \in Range(emitted) /\ o \notin Range(failed) /\ o \notin Range(skipped)

\* C6: the update of a weakly matched file is followed at once by the rename of the
\* destination file to the source's name, and when both have succeeded the destination
\* holds the file under the source's name, with the source's content
C6_CaseRename ==
    \A i \in 1..Len(Stream) :
        IsWeakUpdate(Stream[i]) =>
            /\ Norm(cfg.dst_sys, Stream[i].src) = Norm(cfg.dst_sys, Stream[i].dst)
            /\ i < Len(Stream)
            /\ Stream[i + 1] = Op("RenameFile", Stream[i].dst, None, Stream[i].src)
            /\ (run = 1 /\ ~cfg.dry_run /\ Done(Stream[i]) /\ Done(Stream[i + 1])) =>
                  \E p \in Files(dst) :
                      /\ Norm(cfg.dst_sys, p) = Norm(cfg.dst_sys, Stream[i].src)
                      /\ Last(p) = Last(Stream[i].src)
                      /\ dst[p] = src[Stream[i].src]

\* a weakly matched file was updated and renamed, and both succeeded
C6_Witness ==
    /\ pc = "done" /\ run = 1 /\ ~cfg.dry_run
    /\ \E i \in 1..(Len(emitted) - 1) :
          /\ IsWeakUpdate(emitted[i]) /\ Done(emitted[i]) /\ Done(emitted[i + 1])
          /\ emitted[i + 1].op = "RenameFile"
          /\ emitted[i].dst \notin DOMAIN dst

\* C10: a dry run leaves the destination tree and the trash as they were
C10_DryRun == cfg.dry_run => (dst = dst0 /\ trash = EmptyTree)

\* a dry run completed that logged a rename, a delete or trash, and a create
C10_Witness ==
    /\ cfg.dry_run /\ pc = "done"
    /\ \E o \in Range(emitted) : o.op = "RenameFile"
    /\ \E o \in Range(emitted) : o.op \in {"DeleteFile", "TrashFile"}
    /\ \E o \in Range(emitted) : o.op \in {"CreateFile", "CreateDir"}

----------------------------------------------------------------------------
(* Dry run and real run *)

\* the operations _get_operations yields folder by folder while nothing is performed: the
\* walk over the tasks `todo`, both trees staying as they are
RECURSIVE DryOperations(_, _, _, _)
DryOperations(c, sfs, dfs, todo) ==
    IF todo = <<>> THEN <<>>
    ELSE LET w == Head(todo)
         IN IF w.t = "yield"
            THEN LocalOperations(c, w.diff, sfs, dfs) \o DryOperations(c, sfs, dfs, Tail(todo))
            ELSE IF ListFails(sfs, w.s, w.has_s) \/ ListFails(dfs, w.d, w.has_d)
            THEN DryOperations(c, sfs, dfs, Tail(todo))
            ELSE DryOperations(c, sfs, dfs,
                     WalkSteps(DirDiff(c.dst_sys, c.force, DirList(sfs, w.s, w.has_s),
                                       DirList(dfs, w.d, w.has_d)), w.bottom_up)
                     \o Tail(todo))

\* the first run is over, and it performed nothing or everything it performed succeeded
FirstRunOver == run = 1 /\ pc = "done" /\ (cfg.dry_run \/ RunSucceeded)

\* C11: a dry run and a real run in which every operation succeeds emit the same sequence
\* of operations on the same trees and options: each emits what the walk yields over the
\* trees as they were at the start, though the real run changes the destination under it
C11_DryRunSameOps ==
    FirstRunOver => emitted = DryOperations(cfg, src, dst0, <<RootTask>>)

\* a real run that succeeded, changed the destination in its first folder and then went on
\* to read a directory of the destination
C11_Witness ==
    /\ FirstRunOver /\ ~cfg.dry_run /\ Len(diffs) >= 2
    /\ \E i \in 1..Len(emitted) : Len(emitted[i].dst) = 1 /\ emitted[i].op \in {"DeleteFile", "CreateFile", "UpdateFile", "RenameFile"}
    /\ \E i \in 2..Len(diffs) : diffs[i].has_dst /\ diffs[i].has_src /\ diffs[i].dst_parent # <<>>
    /\ \E i \in 1..Len(emitted) : Len(emitted[i].dst) = 2

----------------------------------------------------------------------------
(* Failures and the operations that depend on them *)

\* the path an operation needs free or present, and the path an operation vacates or makes
NeedsPath(o) ==
    CASE o.op \in {"CreateFile", "CreateDir"} -> {o.dst}
      [] o.op = "RenameFile" -> {o.target}
      [] OTHER -> {}

GivesPath(o) ==
    IF o.op \in {"RenameFile", "DeleteFile", "TrashFile", "CreateDir", "DeleteDir"} THEN {o.dst} ELSE {}

\* the operations emitted before the i-th that were attempted and failed
FailedBefore(i) == {emitted[j] : j \in {k \in 1..(i - 1) : emitted[k] \in Range(failed)}}

\* the i-th emitted operation needs a path at or under one that a failed operation before
\* it was to vacate or make
NeedsFailed(i) ==
    \E f \in FailedBefore(i) : \E p \in NeedsPath(emitted[i]), q \in GivesPath(f) :
        /\ Len(p) >= Len(q)
        /\ Norm(cfg.dst_sys, SubSeq(p, 1, Len(q))) = Norm(cfg.dst_sys, q)

SkipsRight ==
    \A i \in 1..Len(emitted) :
        /\ emitted[i] \in Range(skipped) <=> NeedsFailed(i)
        /\ emitted[i] \in Range(skipped) => emitted[i] \notin Range(failed)

\* a step that skips an operation touches no tree and tallies no failure; a step in which
\* an operation fails leaves the run going
SkipTouchesNothing ==
    /\ Len(skipped') > Len(skipped) => (dst' = dst /\ trash' = trash /\ failed' = failed)
    /\ Len(failed') > Len(failed) => (pc' = "walk" /\ ops' = Tail(ops))

InputPath(o) ==
    CASE o.op \in {"CreateFile", "CreateSymlink", "CreateDir"} -> {o.dst}
      [] o.op \in {"RenameFile", "RenameDir"} -> {o.target}
      [] OTHER -> {}

\* the path an operation vacates or creates: the from-path of a rename, the path of a
\* delete or trash, the path of a directory create
OutputPath(o) ==
    IF o.op \in {"RenameFile", "RenameDir", "DeleteFile", "DeleteDir", "TrashFile", "TrashDir",
                 "CreateDir"}
    THEN {o.dst} ELSE {}

AtOrUnder(p, q) ==
    Len(p) >= Len(q) /\ Norm(cfg.dst_sys, SubSeq(p, 1, Len(q))) = Norm(cfg.dst_sys, q)

\* C20: for any two operations a and b, a depends on b exactly when the input path of a is
\* equal to or nested under the output path of b, compared on normalized segments.
C20_DependsOn ==
    \A a, b \in Range(Stream) :
        DependsOn(cfg.dst_sys, a, b)
            <=> \E p \in InputPath(a), q \in OutputPath(b) : AtOrUnder(p, q)

----------------------------------------------------------------------------
(* Lost connection *)

\* once the connection is down no operation is attempted
NothingAttemptedWhenDown == conn = "down" => emitted' = emitted

\* C13: when the connection fails during a run, also while an operation is performed, no
\* later operation is attempted and the run ends with the status ConnectionError
C13_ConnectionAbort ==
    /\ [][NothingAttemptedWhenDown]_vars
    /\ [](conn = "down" /\ pc # "walk" => pc = "connection_error")

----------------------------------------------------------------------------
(* Strong and weak matches: what dir_diff makes of two listings *)

\* the entries of one directory of a tree, as dir_list hands them to dir_diff
Listed(fs, parent, has) ==
    IF has THEN {[path |-> q, kind |-> fs[q].kind] : q \in Children(fs, parent)} ELSE {}

\* the diffs that the step has just computed and put on the walk
NewDiffs ==
    {work'[i].diff : i \in {j \in 1..Len(work') : work'[j].t = "yield"}}
        \ {work[i].diff : i \in {j \in 1..Len(work) : work[j].t = "yield"}}

SrcListed(df) == Listed(src, df.src_parent, df.has_src)

DstListed(df) == Listed(dst, df.dst_parent, df.has_dst)

Matched(df) == Range(df.dir_matches) \cup Range(df.file_matches)

SrcOnly(df) == Range(df.src_only_dirs) \cup Range(df.src_only_files)

DstOnly(df) == Range(df.dst_only_dirs) \cup Range(df.dst_only_files)

SameFolded(p, q) == Norm(cfg.dst_sys, <<Last(p)>>) = Norm(cfg.dst_sys, <<Last(q)>>)

\* the source entries whose name is the name of d up to case
Candidates(df, d) == {e \in SrcListed(df) : SameFolded(e.path, d.path)}

StrongOf(df, d) == {e \in Candidates(df, d) : Last(e.path) = Last(d.path)}

WeakOf(df, d) == Candidates(df, d) \ StrongOf(df, d)

MatchesOf(df, d) == {m \in Matched(df) : m.d = d.path}

Unrecorded(df, d) ==
    /\ MatchesOf(df, d) = {}
    /\ d.path \notin DstOnly(df)
    /\ \A e \in Candidates(df, d) :
          /\ e.path \notin SrcOnly(df)
          /\ \A m \in Matched(df) : m.s # e.path

MatchRules(df, d) ==
    (\A e \in Candidates(df, d) : e.kind = d.kind) =>
        IF StrongOf(df, d) # {}
        THEN /\ MatchesOf(df, d) = {[s |-> e.path, d |-> d.path] : e \in StrongOf(df, d)}
             /\ \A e \in WeakOf(df, d) : e.path \in df.ignored_src_entries
        ELSE IF Cardinality(WeakOf(df, d)) = 1
        THEN MatchesOf(df, d) = {[s |-> e.path, d |-> d.path] : e \in WeakOf(df, d)}
        ELSE Cardinality(WeakOf(df, d)) >= 2 =>
                /\ d.path \in df.ignored_dst_entries
                /\ \A e \in Candidates(df, d) : e.path \in df.ignored_src_entries
                /\ Unrecorded(df, d)

NewDiffsMatchRight == \A df \in NewDiffs : \A d \in DstListed(df) : MatchRules(df, d)

\* C14: for a destination entry whose candidates all have its type, a candidate of exactly
\* its name is its match and the candidates differing in case are in ignored_src_entries;
\* with no such candidate a single candidate differing in case is its match; with two or
\* more of them the entry is in ignored_dst_entries, all its candidates are in
\* ignored_src_entries and none of them is matched, source-only or destination-only.
C14_StrongWeakMatch == [][NewDiffsMatchRight]_vars

\* a run whose diff rejected a destination entry for having two weak matches of its type
C14_Witness ==
    \E i \in 1..Len(diffs) :
        \E d \in DOMAIN dst0 :
            /\ Len(d) = Len(diffs[i].dst_parent) + 1
            /\ d \in diffs[i].ignored_dst_entries
            /\ Cardinality({e \in DOMAIN src : SameFolded(e, d) /\ src[e].kind = dst0[d].kind /\ Len(e) = Len(d)}) >= 2
            /\ \A e \in DOMAIN src : SameFolded(e, d) /\ Len(e) = Len(d) => src[e].kind = dst0[d].kind

----------------------------------------------------------------------------
(* Entries of different types *)

OtherKind(df, d) == {e \in Candidates(df, d) : e.kind # d.kind}

\* the candidate that the names alone select for d
Chosen(df, d) ==
    IF StrongOf(df, d) # {} THEN StrongOf(df, d)
    ELSE IF Cardinality(WeakOf(df, d)) = 1 THEN WeakOf(df, d)
    ELSE {}

MatchedAsSource(df, e) == \E m \in Matched(df) : m.s = e.path

TypesKept(df, d) ==
    /\ \A e \in OtherKind(df, d) : [s |-> e.path, d |-> d.path] \notin Matched(df)
    /\ ~cfg.force =>
          \A e \in OtherKind(df, d) :
              /\ e.path \in df.ignored_src_entries
              /\ e.path \notin SrcOnly(df)
              /\ ~MatchedAsSource(df, e)
    /\ cfg.force =>
          \A e \in Chosen(df, d) \cap OtherKind(df, d) :
              /\ d.path \in DstOnly(df)
              /\ e.path \in SrcOnly(df)
              /\ MatchesOf(df, d) = {}
              /\ ~MatchedAsSource(df, e)

\* the lists of a diff hold what their names say
ListsTyped(df) ==
    /\ \A m \in Range(df.dir_matches) : src[m.s].kind = "dir" /\ dst[m.d].kind = "dir"
    /\ \A m \in Range(df.file_matches) : src[m.s].kind = "file" /\ dst[m.d].kind = "file"

NewDiffsKeepTypes ==
    \A df \in NewDiffs : ListsTyped(df) /\ \A d \in DstListed(df) : TypesKept(df, d)

KindsAt(fs, p) == {fs[q].kind : q \in {x \in DOMAIN fs : Norm(cfg.dst_sys, x) = Norm(cfg.dst_sys, p)}}

\* no update and no rename of the first run gives an entry the name of an entry of the
\* other type
NoTypeSwapInPlace ==
    run = 1 =>
        \A i \in 1..Len(emitted) :
            LET o == emitted[i]
            IN /\ o.op = "UpdateFile" =>
                     src[o.src].kind = "file" /\ KindsAt(dst0, o.dst) = {"file"}
               /\ o.op \in {"RenameFile", "RenameDir"} =>
                     \A k \in KindsAt(dst0, StripTemp(o.dst)) :
                         StripTemp(o.target) \in DOMAIN src => src[StripTemp(o.target)].kind = k

----------------------------------------------------------------------------
(* The diff as a partition of the two listings *)

Count(b) == IF b THEN 1 ELSE 0

DstPlaces(df, p) ==
    Count(\E m \in Matched(df) : m.d = p) + Count(p \in DstOnly(df))
        + Count(p \in df.ignored_dst_entries)

SrcPlaces(df, p) ==
    Count(\E m \in Matched(df) : m.s = p) + Count(p \in SrcOnly(df))
        + Count(p \in df.ignored_src_entries)

NewDiffsPartition ==
    \A df \in NewDiffs :
        /\ \A d \in DstListed(df) : DstPlaces(df, d.path) = 1
        /\ \A e \in SrcListed(df) : SrcPlaces(df, e.path) = 1

\* C16: in every diff each destination entry of the listing is in exactly one of matched,
\* destination-only and ignored_dst_entries, and each source entry in exactly one of
\* matched, source-only and ignored_src_entries.
C16_DiffPartition == [][NewDiffsPartition]_vars

----------------------------------------------------------------------------
(* Blocked renames *)

IsRename(o) == o.op \in {"RenameFile", "RenameDir"}

IsDelete(o) == o.op \in {"DeleteFile", "DeleteDir", "TrashFile", "TrashDir"}

\* the path is, or lies under, an entry the destination held when the run started and
\* that the run deletes or moves to the trash
AwaitsDeletion(p) ==
    \E d \in Range(Stream) :
        IsDelete(d) /\ d.dst \in DOMAIN dst0 /\ IsRelativeTo(cfg.dst_sys, p, d.dst)

\* the file renames computed for the diff of the run
ComputedRenames == FileRenameMap(cfg, diffs[1], src, dst0)

\* the rename that has just been performed put its entry at a path that was free, or was
\* the entry's own path under another case
RenameOverwroteNothing ==
    (/\ Len(emitted') = Len(emitted) + 1
     /\ IsRename(emitted'[Len(emitted')])
     /\ dst' # dst)
        => LET o == emitted'[Len(emitted')]
           IN \/ ~Exists(cfg.dst_sys, dst, o.target)
              \/ RealPath(cfg.dst_sys, dst, o.target) = RealPath(cfg.dst_sys, dst, o.dst)

\* the planning of the first run is over
Planned == run = 1 /\ pc # "error" /\ Len(diffs) = 1

\* no emitted rename goes to a path that awaits deletion
NoRenameOntoDeleted ==
    Planned => \A o \in Range(Stream) : IsRename(o) => ~AwaitsDeletion(o.target)

\* a computed rename whose target awaits deletion is carried out by a delete and a create
BlockedIsDeletedAndCreated ==
    Planned =>
        \A f \in DOMAIN ComputedRenames :
            AwaitsDeletion(ComputedRenames[f]) =>
                /\ \E o \in Range(Stream) : IsDelete(o) /\ o.dst = f
                /\ Op("CreateFile", ComputedRenames[f], ComputedRenames[f], None) \in Range(Stream)

\* C5: no rename is emitted to a target that is occupied by a destination-only entry
\* awaiting deletion; the file that would have been renamed is deleted and the target
\* created instead; and no rename overwrites an existing destination entry
C5_BlockedRename ==
    /\ [](NoRenameOntoDeleted /\ BlockedIsDeletedAndCreated)
    /\ [][RenameOverwroteNothing]_vars

----------------------------------------------------------------------------
(* Rename chains: free targets, whole chains, consumed entries *)

\* the step applies the rename `o` of a chain to the destination
Applies(o) ==
    /\ Len(emitted') = Len(emitted) + 1
    /\ emitted'[Len(emitted')] = o
    /\ Len(skipped') = Len(skipped)
    /\ ~cfg.dry_run
    /\ IsRename(o)
    /\ Norm(cfg.dst_sys, o.dst) # Norm(cfg.dst_sys, o.target)

RenameTargetFree ==
    \A o \in {ops[i] : i \in 1..Min2(1, Len(ops))} :
        Applies(o) => ~Exists(cfg.dst_sys, dst, o.target)

\* C17: when the renames of an emitted chain are applied in emitted order, the target of
\* each rename is unoccupied at the moment the rename is applied.
C17_TargetUnoccupied == [][RenameTargetFree]_vars

\* the diff that the step turns into operations
YieldedDiff == Head(work).diff

YieldsDiff == work # <<>> /\ Head(work).t = "yield" /\ diffs' = Append(diffs, YieldedDiff)

\* the links of the chain that starts at the destination file k of the rename map
RECURSIVE LinksFrom(_, _, _)
LinksFrom(map, k, from) ==
    IF from \notin DOMAIN map THEN <<>>
    ELSE <<<<from, map[from]>>>>
         \o (IF map[from] = k THEN <<>> ELSE LinksFrom(map, k, map[from]))

Degenerate(link) == ZipEqual(Norm(cfg.dst_sys, link[1]), Norm(cfg.dst_sys, link[2]))

BlockedByFile(df, link) ==
    \E d \in Range(df.dst_only_files) : IsRelativeTo(cfg.dst_sys, link[2], d)

EndsNowhere(df, k, links) ==
    LET end == links[Len(links)][2]
    IN end \notin Range(df.src_only_files) /\ end # k

Rejected(df, k, links) ==
    \/ \E l \in Range(links) : Degenerate(l) \/ BlockedByFile(df, l)
    \/ EndsNowhere(df, k, links)

\* the operations of the step hold the rename of the link, to its target or to the
\* temporary name of its target
EmitsLink(link) ==
    \E o \in Range(ops') :
        o.op = "RenameFile" /\ o.dst = link[1] /\ o.target \in {link[2], AddSuffix(link[2], ".tempmove")}

\* the entries of the link are still deleted and created as entries of their own
LeftInPlace(df, link) ==
    /\ link[1] \in Range(df.dst_only_files) =>
          \E o \in Range(ops') : IsDelete(o) /\ o.dst = link[1]
    /\ link[2] \in Range(df.src_only_files) =>
          Op("CreateFile", link[2], link[2], None) \in Range(ops')

WholeChains ==
    YieldsDiff =>
        LET map == FileRenameMap(cfg, YieldedDiff, src, dst)
        IN \A k \in DOMAIN map :
              LET links == LinksFrom(map, k, k)
              IN /\ \/ \A l \in Range(links) : EmitsLink(l)
                    \/ \A l \in Range(links) : ~EmitsLink(l)
                 /\ Rejected(YieldedDiff, k, links) =>
                       \A l \in Range(links) : ~EmitsLink(l) /\ LeftInPlace(YieldedDiff, l)

\* C18: a rename chain is emitted completely or not at all; a chain with a degenerate link,
\* with a link whose target is blocked by a destination-only file, or that ends at a path
\* that is neither source-only nor its own start, has none of its renames emitted and
\* none of its entries taken out of the sets of the diff.
C18_WholeChains == [][WholeChains]_vars

\* the operation o handles again an entry that the rename r has consumed
HandlesAgain(r, o) ==
    \/ /\ o.op \in {"DeleteFile", "DeleteDir", "TrashFile", "TrashDir", "UpdateFile"}
       /\ \/ o.dst = r.dst
          \/ r.op = "RenameDir" /\ IsRelativeTo(cfg.dst_sys, o.dst, r.dst)
    \/ /\ o.op \in {"CreateFile", "CreateDir"}
       /\ \/ o.dst = r.target
          \/ r.op = "RenameDir" /\ IsRelativeTo(cfg.dst_sys, o.dst, r.target)

\* C19: no delete, trash or update is emitted for a destination path that is the from-path
\* of an emitted rename of a chain or lies under the from-path of an emitted directory
\* rename, and no create for a source path that is the target of such a rename or lies
\* under the target of an emitted directory rename.
C19_ConsumedOnce ==
    \A i, j \in 1..Len(emitted) :
        (/\ i # j
         /\ IsRename(emitted[i])
         /\ Norm(cfg.dst_sys, emitted[i].dst) # Norm(cfg.dst_sys, emitted[i].target))
            => ~HandlesAgain(emitted[i], emitted[j])

----------------------------------------------------------------------------
(* The order of the links of a chain, and of the groups of the stream *)

\* two renames of one kind are neighbouring links of a chain: one renames its entry onto
\* the path that the other renames its entry away from
Linked(a, b) ==
    /\ IsRename(a) /\ a.op = b.op
    /\ Norm(cfg.dst_sys, a.dst) # Norm(cfg.dst_sys, a.target)
    /\ Norm(cfg.dst_sys, b.dst) # Norm(cfg.dst_sys, b.target)
    /\ \/ b.target = a.dst
       \/ a.target = b.dst

\* the positions of the stream that hold two consecutive operations of one chain
ChainPairs == {i \in 1..(Len(Stream) - 1) : Linked(Stream[i], Stream[i + 1])}

\* the attempted link at position i of this run's operations failed
LinkFailed(i) == i <= Len(emitted) /\ emitted[i] \in Range(failed)

Group(o) ==
    CASE IsRename(o) /\ Norm(cfg.dst_sys, o.dst) # Norm(cfg.dst_sys, o.target) -> 1
      [] IsDelete(o) -> 2
      [] o.op = "UpdateFile" \/ IsRename(o) -> 3
      [] OTHER -> 4

\* C22: in global-renames mode the stream is all renames, then all deletes and
\* trash-moves, then all updates with their case renames, then all directory and file
\* creates.
C22_GlobalGroups ==
    cfg.global_renames =>
        \A i, j \in 1..Len(Stream) : i < j => Group(Stream[i]) <= Group(Stream[j])

\* a whole-tree plan with a rename, a delete and a create has been emitted
C22_Witness ==
    /\ cfg.global_renames
    /\ ops = <<>>
    /\ \A g \in {1, 2, 4} : \E i \in 1..Len(emitted) : Group(emitted[i]) = g

\* the directory q is an ancestor of the path p
Ancestor(q, p) == Len(q) < Len(p) /\ SubSeq(p, 1, Len(q)) = q

\* C23: among the delete and trash operations of a run, the operation for any path is
\* emitted before the operation for every ancestor directory of that path, in whole-tree
\* mode and in directory-by-directory mode.
C23_ContentsFirst ==
    \A i, j \in 1..Len(Stream) :
        (/\ IsDelete(Stream[i]) /\ IsDelete(Stream[j])
         /\ Ancestor(Stream[j].dst, Stream[i].dst)) => i < j

\* a directory and an entry under it have both been deleted or moved to the trash
C23_Witness ==
    \E i, j \in 1..Len(emitted) :
        /\ IsDelete(emitted[i]) /\ IsDelete(emitted[j])
        /\ Ancestor(emitted[j].dst, emitted[i].dst)
        /\ emitted[j].dst \notin DOMAIN dst

\* the path that a rename or a create claims
Claimed(o) ==
    IF IsRename(o) THEN {o.target}
    ELSE IF o.op \in {"CreateFile", "CreateDir", "CreateSymlink"} THEN {o.dst}
    ELSE {}

\* C24: the delete or trash-move of a destination-only directory is emitted before every
\* rename and every create whose target path equals that directory's path or lies under
\* it.
C24_DeleteBeforeClaim ==
    \A i, j \in 1..Len(Stream) :
        (/\ Stream[i].op \in {"DeleteDir", "TrashDir"}
         /\ \E t \in Claimed(Stream[j]) : AtOrUnder(t, Stream[i].dst)) => i < j

----------------------------------------------------------------------------
(* What the plan holds for a source file *)

\* the walk has listed the source file f and has not ignored it
Considered(f) ==
    /\ \E i \in 1..Len(diffs) : f \in DOMAIN diffs[i].src_file_metadata
    /\ f \notin IgnoredSoFar("src")

\* the destination files that the diffs of the run match with the source file f and that
\* no rename of a chain takes away
StillMatched(f) ==
    {m \in UNION {Range(diffs[i].file_matches) : i \in 1..Len(diffs)} :
        m.s = f /\ \A o \in Range(Stream) : IsChainRename(o) => o.dst # m.d}

\* the renames of chains that end at f, and the creates of f
LandsOn(f) ==
    {i \in 1..Len(Stream) :
        \/ IsChainRename(Stream[i]) /\ Stream[i].target = f
        \/ Stream[i].op = "CreateFile" /\ Stream[i].dst = f}

\* C27: with renames and creation enabled, every non-ignored source file ends the
\* planning of a run still matched with a destination file, or as the final target of
\* exactly one emitted rename, or as the subject of exactly one create, and never as
\* more than one of these.
C27_OnePlaceEach ==
    (run = 1 /\ pc = "done" /\ cfg.renames /\ cfg.create_files) =>
        \A f \in Files(src) :
            Considered(f) => Cardinality(StillMatched(f)) + Cardinality(LandsOn(f)) = 1

----------------------------------------------------------------------------
(* What a run leaves alone *)

\* the paths at which two states of a tree differ
Touched(old, new) ==
    {p \in DOMAIN old \cup DOMAIN new :
        p \notin DOMAIN old \/ p \notin DOMAIN new \/ old[p] # new[p]}

\* the path p is q, an ancestor of q that had to be made, or an entry moved with q
Along(p, q) ==
    LET n == Min2(Len(p), Len(q))
    IN q # <<>> /\ Norm(cfg.dst_sys, SubSeq(p, 1, n)) = Norm(cfg.dst_sys, SubSeq(q, 1, n))

\* the paths an operation is given, under the destination root and under the trash root
DstPaths(o) == {o.dst} \cup (IF IsRename(o) THEN {o.target} ELSE {})

TrashPaths(o) == IF o.op \in {"TrashFile", "TrashDir"} THEN {o.dst} ELSE {}

SourceUntouched ==
    /\ src' = src
    /\ (dst' # dst \/ trash' # trash) =>
          /\ ops # <<>> /\ ~cfg.dry_run
          /\ \A p \in Touched(dst, dst') : \E q \in DstPaths(Head(ops)) : Along(p, q)
          /\ \A p \in Touched(trash, trash') : \E q \in TrashPaths(Head(ops)) : Along(p, q)

MaxWalkDepth == 3

WalkPaths == UNION {[1..n -> {"a", "b", "c"}] : n \in 0..MaxWalkDepth}

Prefixes(p) == {SubSeq(p, 1, n) : n \in 0..(Len(p) - 1)}

\* the directory p of the tree can be reached from the root through directories that can
\* be read, none of them a link back to a directory it lies under
RECURSIVE OnWalk(_, _)
OnWalk(fs, p) ==
    \/ p = <<>>
    \/ /\ OnWalk(fs, Front(p))
       /\ ~ScanFails(fs, Front(p))
       /\ p \in Range(SubDirs(fs, Front(p)))
       /\ \A q \in Prefixes(p) : Resolve(fs, q) # Resolve(fs, p)

FilesOnWalk(fs) ==
    {f \in WalkPaths : /\ f # <<>> /\ OnWalk(fs, Front(f)) /\ ~ScanFails(fs, Front(f))
                       /\ f \in Range(NonDirs(fs, Front(f)))}

\* the filter accepts the relative path p, tested with the separator after it or without
Accepted(p, with_sep) ==
    Filter(segments, 1, [i \in 1..Len(p) |-> <<p[i]>>] \o (IF with_sep THEN <<Slash>> ELSE <<>>))

AcceptedAbove(p) == \A q \in Prefixes(p) \ {<<>>} : Accepted(q, TRUE)

\* C25: a file is reported by the scan if and only if the filter accepts its relative
\* path, tested without a separator after it, and the relative path of each directory it
\* lies under below the root, tested with the separator after it; the scan never lists a
\* directory the filter rejects.
C25_ReportedIffAccepted ==
    /\ \A f \in reported : f \in FilesOnWalk(src) /\ Accepted(f, FALSE) /\ AcceptedAbove(f)
    /\ (fstate = "ready" /\ stack = <<>>) =>
          \A f \in FilesOnWalk(src) : (Accepted(f, FALSE) /\ AcceptedAbove(f)) => f \in reported
    /\ \A i \in 1..Len(scanned) :
          scanned[i] # <<>> => Accepted(scanned[i], TRUE) /\ AcceptedAbove(scanned[i])

C25_Witness ==
    /\ fstate = "ready" /\ stack = <<>>
    /\ \E f, g, h \in FilesOnWalk(src) :
          /\ f \in reported
          /\ ~Accepted(g, FALSE) /\ AcceptedAbove(g)
          /\ Accepted(h, FALSE) /\ ~AcceptedAbove(h)
    /\ \E p \in DOMAIN src : src[p].kind = "link" /\ <<p[1], "c">> \in reported

(* Links that lead back *)

\* the recursion path of the paired walk: the pairs of directories dual_walk has entered
\* and not yet reached the end of
OnPath == {i \in 1..Len(work) : work[i].t = "leave"}

\* the path p of the tree leads back to a directory it lies under
LeadsBack(fs, p) == \E q \in Prefixes(p) : Resolve(fs, q) = Resolve(fs, p)

Side(name) == IF name = "src" THEN src ELSE dst

\* C26: with follow_symlinks the walk skips, and logs, a directory whose canonical path is
\* that of a directory on the traversal path, and only such a directory: a directory
\* reached through two sibling links is visited through both.
C26_OnlyLoopsSkipped ==
    \A i \in 1..Len(circular) : LeadsBack(Side(circular[i][1]), circular[i][2])

\* the same of _walk alone, whose visited_dirs are the canonical paths still on its stack
C26_WalkOnlyLoopsSkipped ==
    /\ \A i \in 1..Len(circular) : LeadsBack(src, circular[i])
    /\ visited_dirs = {stack[i].path : i \in {j \in 1..Len(stack) : stack[j].mark}}
    /\ (fstate = "ready" /\ stack = <<>>) =>
          \A p \in WalkPaths : (OnWalk(src, p) /\ AcceptedAbove(p) /\ (p # <<>> => Accepted(p, TRUE)))
                                  => \/ p \in Range(scanned)
                                     \/ ScanFails(src, p)

SpecWalkFair == SpecWalk /\ WF_vars(NextWalk)

C26_WalkEnds == <>(fstate = "error" \/ stack = <<>>)

\* C28: during the paired walk with follow_symlinks the sets of ancestors hold exactly the
\* canonical paths of the directories on the recursion path: what dual_walk adds on
\* entering a pair of directories it removes when the walk of the pair ends, also when it
\* ends early for a listing that failed or for a circular link on the other side.
C28_AncestorsOnPath ==
    /\ src_ancestors = {work[i].s : i \in {j \in OnPath : work[j].has_s}}
    /\ dst_ancestors = {work[i].d : i \in {j \in OnPath : work[j].has_d}}

----------------------------------------------------------------------------
(* Identifiers *)

\* C30: get_timestamp never returns the same identifier twice within a process, for any
\* interleaving of concurrent callers and any behaviour of the clock.
C30_UniqueIds == \A i, j \in 1..Len(ids) : i # j => ids[i] # ids[j]

\* where local time never repeats, every identifier differs from those before it
C30_UniqueWithoutFold == tz = "utc" => C30_UniqueIds

----------------------------------------------------------------------------
(* Filter precedence *)

\* filter() has been called on the compiled filter
Asked == fstate = "ready" /\ relpath # <<>>

\* the rules of the compiled filter that match the path
Matching(path) == {i \in 1..Len(segments) : Match(segments[i].glob_pattern, path)}

\* the rules the last allow or reject call produced are the last rules of the filter, in
\* the order they were produced
YieldedInPlace ==
    /\ Len(yielded) <= Len(segments)
    /\ SubSeq(segments, Len(segments) - Len(yielded) + 1, Len(segments)) = yielded

\* C7: filter(path) is the action of the first rule that matches the path, the rules
\* standing in the order they were written and each synthesized ancestor rule where it
\* was generated; a path no rule matches is excluded.  "+ a/*.txt - a/**" includes
\* a/x.txt, excludes a/b/x.txt, and includes a/ by the ancestor rule generated before
\* the exclusion
C7_FirstMatch ==
    /\ fstate # "error" => YieldedInPlace
    /\ Asked =>
        /\ \A i \in Matching(relpath) :
              (\A j \in Matching(relpath) : i <= j) => result = segments[i].action
        /\ Matching(relpath) = {} => result = FALSE
        /\ filter_string = PrecedenceExample =>
              /\ relpath = <<nA, nXTxt>> => result = TRUE
              /\ relpath = <<nA, nB, nXTxt>> => result = FALSE
              /\ relpath = <<nA, Slash>> => result = TRUE

\* a path two rules of opposite actions match, decided by the first of them
C7_Witness ==
    /\ Asked
    /\ filter_string = PrecedenceExample
    /\ relpath = <<nA, Slash>>
    /\ Matching(relpath) = {2, 3}
    /\ segments[2].action /\ ~segments[3].action
    /\ result = TRUE

----------------------------------------------------------------------------
(* Ancestor directories and relative patterns *)

RECURSIVE ActionAt(_)
\* the action in force at token i: that of the last + or - before it, + if there is none
ActionAt(i) ==
    IF i <= 1 THEN TRUE
    ELSE IF filter_string[i - 1].kind = "pattern" THEN ActionAt(i - 1)
    ELSE filter_string[i - 1].kind = "+"

IsPattern(i) == filter_string[i].kind = "pattern" /\ filter_string[i].pattern # EmptyStr

IncludeTokens == {i \in 1..Len(filter_string) : IsPattern(i) /\ ActionAt(i)}

ExcludeTokens == {i \in 1..Len(filter_string) : IsPattern(i) /\ ~ActionAt(i)}

RelativeTokens == {i \in IncludeTokens : IsRelativePattern(filter_string[i].pattern)}

\* the explicitly written directory include rules before token i with no exclude rule
\* between them and the token
BaseTokens(i) ==
    {j \in IncludeTokens :
        /\ j < i
        /\ ~IsRelativePattern(filter_string[j].pattern)
        /\ EndsWithSlash(filter_string[j].pattern)
        /\ \A k \in ExcludeTokens : ~(j < k /\ k < i)}

\* the patterns an include token stands for: a relative one stands for itself appended to
\* each of its bases, or for itself at the root when it has none
Effective(i) ==
    LET p == filter_string[i].pattern
    IN IF i \notin RelativeTokens THEN {p}
       ELSE IF BaseTokens(i) = {} THEN {StripRelative(p)}
       ELSE {Concat(filter_string[j].pattern, StripRelative(p)) : j \in BaseTokens(i)}

\* the ancestor directories of a pattern, as directory patterns
AncestorDirs(p) == {Append(SubSeq(p, 1, k), Slash) : k \in 1..(Len(RStrip(p)) - 1)}

ExcludedBefore(i, path) ==
    \E j \in ExcludeTokens : j < i /\ Match(filter_string[j].pattern, path)

\* C8: every ancestor directory of every include pattern is accepted as a directory path,
\* unless a rule before the pattern excludes it
C8_Ancestors ==
    Asked => \A i \in IncludeTokens : \A e \in Effective(i) : \A d \in AncestorDirs(e) :
                (Match(d, relpath) /\ ~ExcludedBefore(i, relpath)) => result = TRUE

\* the same for the patterns written from the root and the relative ones that have a
\* base: their ancestor directories are accepted
C8_RootedAncestors ==
    Asked => \A i \in IncludeTokens : \A e \in Effective(i) : \A d \in AncestorDirs(e) :
                (/\ i \in RelativeTokens => BaseTokens(i) # {}
                 /\ Match(d, relpath) /\ ~ExcludedBefore(i, relpath)) => result = TRUE

RECURSIVE BasesInOrder(_, _)
\* the patterns of the bases of token i among the tokens j.., in the order written
BasesInOrder(i, j) ==
    IF j >= i THEN <<>>
    ELSE (IF j \in BaseTokens(i) THEN <<filter_string[j].pattern>> ELSE <<>>)
         \o BasesInOrder(i, j + 1)

RECURSIVE Expanded(_)
\* the filter string with every relative include pattern ./p replaced by d/p for each of
\* its bases d/, and by p when it has none: the tokens from i on
Expanded(i) ==
    IF i > Len(filter_string) THEN <<>>
    ELSE IF i \notin RelativeTokens THEN <<filter_string[i]>> \o Expanded(i + 1)
    ELSE LET p == StripRelative(filter_string[i].pattern)
             b == BasesInOrder(i, 1)
         IN (IF b = <<>> THEN <<Pat(p)>>
             ELSE [k \in 1..Len(b) |-> Pat(Concat(b[k], p))])
            \o Expanded(i + 1)

RECURSIVE Compiled(_, _, _, _)
\* PathFilter(tokens)._segments for tokens __init__ accepts: the tokens from i on
Compiled(tokens, i, act, st) ==
    IF i > Len(tokens) THEN st.segments
    ELSE IF tokens[i].kind # "pattern"
         THEN Compiled(tokens, i + 1, tokens[i].kind = "+", st)
    ELSE IF act
         THEN Compiled(tokens, i + 1, act,
                       AllowPattern(st.segments, st.tmp_allowed, tokens[i].pattern))
    ELSE Compiled(tokens, i + 1, act, RejectPattern(st.segments, tokens[i].pattern))

\* the last token __init__ took is a relative include pattern
TookRelative == fstate # "error" /\ pos > 1 /\ (pos - 1) \in RelativeTokens

\* the relative patterns whose expansion is one name at the root have no ancestor
\* directory to be accepted with them
RootlessNested ==
    {i \in RelativeTokens :
        BaseTokens(i) = {} /\ AncestorDirs(StripRelative(filter_string[i].pattern)) # {}}

\* C9: an include pattern ./p adds the rule d/p for every explicitly written directory
\* include rule d/ before it with no exclude rule in between, and the rule p when there
\* is none; beside these it adds only ancestor directories of them.  The filter then
\* answers as the filter of the string with ./p replaced by these rules does, as
\* "+ a/ - b/ + c/ d/ ./1" answers as "+ a/ - b/ + c/ d/ c/1 d/1"
C9_RelativePatterns ==
    /\ TookRelative =>
          LET rules == {yielded[k].glob_pattern : k \in 1..Len(yielded)}
          IN /\ Effective(pos - 1) \subseteq rules
             /\ \A r \in rules :
                   r \in Effective(pos - 1) \/ \E e \in Effective(pos - 1) : r \in AncestorDirs(e)
             /\ \A k \in 1..Len(yielded) : yielded[k].action
    /\ (Asked /\ RootlessNested = {}) =>
          result = Filter(Compiled(Expanded(1), 1, TRUE, FilterState(<<>>, {})), 1, relpath)
    /\ (Asked /\ filter_string = RelativeExample) =>
          Expanded(1) = <<Plus, Pat(<<nA, Slash>>), Minus, Pat(<<nB, Slash>>),
                          Plus, Pat(<<nC, Slash>>), Pat(<<nD, Slash>>),
                          Pat(<<nC, n1>>), Pat(<<nD, n1>>)>>

\* "+ a/ - b/ + c/ d/ ./1" asked about c/1: c/ and d/ are the bases, a/ is not
C9_Witness ==
    /\ Asked
    /\ filter_string = RelativeExample
    /\ {filter_string[j].pattern : j \in BaseTokens(8)} = {<<nC, Slash>>, <<nD, Slash>>}
    /\ {yielded[k].glob_pattern : k \in 1..Len(yielded)} = {<<nC, n1>>, <<nD, n1>>}
    /\ relpath = <<nC, n1>>
    /\ result = TRUE

====
